---- MODULE Spec2Model ----
(***************************************************************************)
(* Model of the tic-tac-toe engine: the Board (internal/game/board.go),    *)
(* the Game state machine (internal/game/game.go), the sharded GameStore   *)
(* and StatsStore (internal/store), and the server's MakeMove / JoinGame   *)
(* handlers with the stats they record (internal/server/server.go).        *)
(***************************************************************************)
EXTENDS Integers, Sequences, FiniteSets, TLC

VARIABLES
    game,      \* the Game object: ID, PlayerX, PlayerO, Board, Turn, Status, timestamps
    clock,     \* the wall clock read by time.Now()
    last,      \* the most recent call on the game and what it returned
    board,     \* a Board used directly through its own methods
    lastB,     \* the most recent Board call and what it returned
    mu,        \* g.mu: 0 when free, else the thread that holds it
    th,        \* per thread: where it is inside Join / MakeMove, its arguments and locals
    lin,       \* history: the game as if every call had run alone at the moment it took g.mu
    joiners,   \* history: the ids whose Join returned nil, in order of return
    okMoves,   \* history: how many MakeMove calls returned nil
    req,       \* per server handler: where it is in JoinGame / MakeMove and its snapshot
    stats,     \* the StatsStore: user id -> UserStats, records created on first use
    heap,      \* memory: address -> the cells of one backing array
    snap,      \* a GameSnapshot held by a caller, its board's Cells an address in heap
    store,     \* the GameStore: shard index -> (game id -> the Game stored)
    lastS,     \* the most recent GameStore call and what it returned
    smu,       \* per shard, its RWMutex: the writer holding it (0 when none) and the number of readers
    cl,        \* per client thread: where it is inside Create / Delete, its arguments and locals
    made,      \* history: per game id, successful Creates minus successful Deletes, and the creator of the game last stored
    lp,        \* the thread inside ListPending: its position, the shard and games still to visit, the snapshots collected
    ushards,   \* the StatsStore: shard index -> (user id -> address of the UserStats)
    urecs,     \* memory: address -> the Wins, Losses, Draws of one UserStats
    umu,       \* per stats shard, its RWMutex: the writer holding it (0 when none) and the number of readers
    wk,        \* per worker thread: where it is inside RecordWin / RecordLoss / RecordDraw and its locals
    tally,     \* history: per user id, the RecordWin, RecordLoss and RecordDraw calls that have returned
    lastU,     \* the most recent StatsStore.Get and what it returned
    rd,        \* the thread inside StatsStore.Get: its position, the record it holds, the counters loaded so far, and (history) the triples the record has held since the call began
    games,     \* the matches in the store, by id, for the handlers that publish updates
    subs,      \* TicTacToeServer.subscribers: match id -> set of channels
    chans,     \* the update channel of each stream: its buffer and whether it is closed
    submu,     \* subscribersMu: writer and number of readers
    pub,       \* the JoinGame / MakeMove handlers that publish: position, update, channels still to visit
    obs,       \* the StreamGameUpdates handlers: position, match id, how it left its loop
    panicked,  \* whether a send on a closed channel has happened
    locks,     \* the mutexes of the core by name: whether a writer holds it, the number of readers, whether a writer waits
    calls      \* per goroutine inside a call of the core: the lock operations still ahead, the mutexes held, whether it waits as a writer

gameVars == <<game, clock, last>>
boardVars == <<board, lastB>>
lockVars == <<mu, th, lin, joiners, okMoves>>
srvVars == <<req, stats>>
cloneVars == <<heap, snap>>
regVars == <<store, lastS, smu, cl, made, lp>>
statVars == <<ushards, urecs, umu, wk, tally, lastU>>
readVars == <<rd>>
fanVars == <<games, subs, chans, submu, pub, obs, panicked>>
ordVars == <<locks, calls>>
vars == <<game, clock, last, board, lastB, mu, th, lin, joiners, okMoves, req, stats, heap, snap, store, lastS, smu, cl, made, lp, ushards, urecs, umu, wk, tally, lastU, rd, games, subs, chans, submu, pub, obs, panicked, locks, calls>>

\* what the actions of each specification leave alone
notGame == <<boardVars, lockVars, srvVars, cloneVars, regVars, statVars, readVars, fanVars, ordVars>>
notBoard == <<gameVars, lockVars, srvVars, cloneVars, regVars, statVars, readVars, fanVars, ordVars>>
notLock == <<boardVars, srvVars, cloneVars, regVars, statVars, readVars, fanVars, ordVars>>
notServer == <<boardVars, lockVars, cloneVars, regVars, statVars, readVars, fanVars, ordVars>>
notClone == <<boardVars, lockVars, srvVars, regVars, statVars, readVars, fanVars, ordVars>>

----------------------------------------------------------------------------
(* Marks and statuses (iota constants of board.go) *)

MarkEmpty == 0
MarkX == 1
MarkO == 2
Marks == {MarkEmpty, MarkX, MarkO}

StatusPending == 0
StatusInProgress == 1
StatusXWon == 2
StatusOWon == 3
StatusDraw == 4
Statuses == {StatusPending, StatusInProgress, StatusXWon, StatusOWon, StatusDraw}

Nil == "nil"
ErrInvalidBoardSize == "ErrInvalidBoardSize"
ErrInvalidWinLength == "ErrInvalidWinLength"
ErrInvalidPosition == "ErrInvalidPosition"
ErrCellOccupied == "ErrCellOccupied"
ErrGameNotInProgress == "ErrGameNotInProgress"
ErrNotYourTurn == "ErrNotYourTurn"
ErrPlayerNotInGame == "ErrPlayerNotInGame"
ErrGameAlreadyStarted == "ErrGameAlreadyStarted"
ErrCannotJoinOwnGame == "ErrCannotJoinOwnGame"
ErrGameNotFound == "ErrGameNotFound"
ErrGameAlreadyExists == "ErrGameAlreadyExists"

DefaultBoardSize == 3
DefaultWinLength == 3

----------------------------------------------------------------------------
(* Identities and inputs of the model *)

\* player identities: the creator, and the ids that call Join / MakeMove
Creator == "alice"
UserIDs == {"alice", "bob", "carol"}

----------------------------------------------------------------------------
(* Mark.Opponent, Status.IsFinished *)

Opponent(m) ==
    CASE m = MarkX -> MarkO
      [] m = MarkO -> MarkX
      [] OTHER -> MarkEmpty

IsFinished(s) == s = StatusXWon \/ s = StatusOWon \/ s = StatusDraw

----------------------------------------------------------------------------
(* Board *)

\* NewBoard testing the win length before the size
NewBoard_WinLengthFirst(size, winLength) ==
    IF winLength < 3 \/ winLength > size THEN [err |-> ErrInvalidWinLength]
    ELSE IF size < 3 THEN [err |-> ErrInvalidBoardSize]
    ELSE [err |-> Nil,
          board |-> [Size |-> size, WinLength |-> winLength,
                     Cells |-> [i \in 0..(size * size - 1) |-> MarkEmpty]]]

NewBoard(size, winLength) ==
    IF size < 3 THEN [err |-> ErrInvalidBoardSize]
    ELSE IF winLength < 3 \/ winLength > size THEN [err |-> ErrInvalidWinLength]
    ELSE [err |-> Nil,
          board |-> [Size |-> size, WinLength |-> winLength,
                     Cells |-> [i \in 0..(size * size - 1) |-> MarkEmpty]]]

isValidPosition(b, row, col) ==
    row >= 0 /\ row < b.Size /\ col >= 0 /\ col < b.Size

BoardGet(b, row, col) ==
    IF ~isValidPosition(b, row, col)
    THEN [mark |-> MarkEmpty, err |-> ErrInvalidPosition]
    ELSE [mark |-> b.Cells[row * b.Size + col], err |-> Nil]

\* Set without the occupancy check
BoardSet_Overwrite(b, row, col, mark) ==
    IF ~isValidPosition(b, row, col) THEN [err |-> ErrInvalidPosition, board |-> b]
    ELSE [err |-> Nil, board |-> [b EXCEPT !.Cells[row * b.Size + col] = mark]]

BoardSet(b, row, col, mark) ==
    IF ~isValidPosition(b, row, col) THEN [err |-> ErrInvalidPosition, board |-> b]
    ELSE LET idx == row * b.Size + col IN
         IF b.Cells[idx] # MarkEmpty THEN [err |-> ErrCellOccupied, board |-> b]
         ELSE [err |-> Nil, board |-> [b EXCEPT !.Cells[idx] = mark]]

\* IsFull whose loop stops one cell early
IsFull_SkipsLast(b) ==
    \A i \in DOMAIN b.Cells : i < Cardinality(DOMAIN b.Cells) - 1 => b.Cells[i] # MarkEmpty

IsFull(b) == \A i \in DOMAIN b.Cells : b.Cells[i] # MarkEmpty

RECURSIVE countInDirection(_, _, _, _, _, _)
countInDirection(b, row, col, dRow, dCol, mark) ==
    LET r == row + dRow
        c == col + dCol
    IN IF isValidPosition(b, r, c) /\ BoardGet(b, r, c).mark = mark
       THEN 1 + countInDirection(b, r, c, dRow, dCol, mark)
       ELSE 0

directions == << <<0, 1>>, <<1, 0>>, <<1, 1>>, <<1, -1>> >>

\* CheckWinner that counts only in the positive direction of each orientation
CheckWinner_ForwardOnly(b, row, col) ==
    LET got == BoardGet(b, row, col)
        mark == got.mark
        count(dir) == 1 + countInDirection(b, row, col, dir[1], dir[2], mark)
    IN IF got.err # Nil \/ mark = MarkEmpty THEN MarkEmpty
       ELSE IF \E k \in 1..Len(directions) : count(directions[k]) >= b.WinLength
            THEN mark
            ELSE MarkEmpty

CheckWinner(b, row, col) ==
    LET got == BoardGet(b, row, col)
        mark == got.mark
        count(dir) == 1 + countInDirection(b, row, col, dir[1], dir[2], mark)
                        + countInDirection(b, row, col, -dir[1], -dir[2], mark)
    IN IF got.err # Nil \/ mark = MarkEmpty THEN MarkEmpty
       ELSE IF \E k \in 1..Len(directions) : count(directions[k]) >= b.WinLength
            THEN mark
            ELSE MarkEmpty

Clone(b) ==
    [Size |-> b.Size, WinLength |-> b.WinLength,
     Cells |-> [i \in 0..(Cardinality(DOMAIN b.Cells) - 1) |-> b.Cells[i]]]

----------------------------------------------------------------------------
(* Game *)

NewGame(id, creatorID, boardSize, winLength, now) ==
    LET nb == NewBoard(boardSize, winLength) IN
    IF nb.err # Nil THEN [err |-> nb.err]
    ELSE [err |-> Nil,
          game |-> [ID |-> id, PlayerX |-> creatorID, PlayerO |-> "",
                    Board |-> nb.board, Turn |-> MarkX, Status |-> StatusPending,
                    CreatedAt |-> now, UpdatedAt |-> now]]

getPlayerMark(g, playerID) ==
    CASE playerID = g.PlayerX -> MarkX
      [] playerID = g.PlayerO -> MarkO
      [] OTHER -> MarkEmpty

\* Join that does not look at the status
GameJoin_AnyStatus(g, playerID, now) ==
    IF g.PlayerX = playerID THEN [err |-> ErrCannotJoinOwnGame, game |-> g]
    ELSE [err |-> Nil,
          game |-> [g EXCEPT !.PlayerO = playerID,
                             !.Status = StatusInProgress,
                             !.UpdatedAt = now]]

\* the creator is recognised before the status is looked at
JoinCheck_OwnFirst(g, playerID) ==
    IF g.PlayerX = playerID THEN ErrCannotJoinOwnGame
    ELSE IF g.Status # StatusPending THEN ErrGameAlreadyStarted
    ELSE Nil

\* Join that only refuses the creator
JoinCheck_OwnGameOnly(g, playerID) ==
    IF g.PlayerX = playerID THEN ErrCannotJoinOwnGame ELSE Nil

\* a Join check that lets the creator in
JoinCheck_StatusOnly(g, playerID) ==
    IF g.Status # StatusPending THEN ErrGameAlreadyStarted ELSE Nil

\* Game.Join lines 46-51: the two checks
JoinCheck(g, playerID) ==
    IF g.Status # StatusPending THEN ErrGameAlreadyStarted
    ELSE IF g.PlayerX = playerID THEN ErrCannotJoinOwnGame
    ELSE Nil

\* Game.Join, the body run under g.mu
GameJoin(g, playerID, now) ==
    IF JoinCheck(g, playerID) # Nil THEN [err |-> JoinCheck(g, playerID), game |-> g]
    ELSE [err |-> Nil,
          game |-> [g EXCEPT !.PlayerO = playerID,
                             !.Status = StatusInProgress,
                             !.UpdatedAt = now]]

\* validation that does not look at the turn
MoveCheck_NoTurn(g, playerID) ==
    IF g.Status # StatusInProgress THEN ErrGameNotInProgress
    ELSE IF getPlayerMark(g, playerID) = MarkEmpty THEN ErrPlayerNotInGame
    ELSE Nil

\* validation that compares the turn before it resolves the player
MoveCheck_TurnFirst(g, playerID) ==
    IF g.Status # StatusInProgress THEN ErrGameNotInProgress
    ELSE IF g.Turn # getPlayerMark(g, playerID) THEN ErrNotYourTurn
    ELSE IF getPlayerMark(g, playerID) = MarkEmpty THEN ErrPlayerNotInGame
    ELSE Nil

\* Game.MakeMove lines 64-78: the validation of state, player and turn
MoveCheck(g, playerID) ==
    IF g.Status # StatusInProgress THEN ErrGameNotInProgress
    ELSE IF getPlayerMark(g, playerID) = MarkEmpty THEN ErrPlayerNotInGame
    ELSE IF g.Turn # getPlayerMark(g, playerID) THEN ErrNotYourTurn
    ELSE Nil

\* a win credited to the other mark
MoveFinish_OpponentWins(g, row, col, now) ==
    LET g1 == [g EXCEPT !.UpdatedAt = now]
        winner == CheckWinner(g1.Board, row, col)
    IN IF winner # MarkEmpty
       THEN IF winner = MarkX THEN [g1 EXCEPT !.Status = StatusOWon]
                              ELSE [g1 EXCEPT !.Status = StatusXWon]
       ELSE IF IsFull(g1.Board) THEN [g1 EXCEPT !.Status = StatusDraw]
       ELSE [g1 EXCEPT !.Turn = Opponent(g1.Turn)]

\* the draw check placed before the winner check
MoveFinish_DrawFirst(g, row, col, now) ==
    LET g1 == [g EXCEPT !.UpdatedAt = now]
        winner == CheckWinner(g1.Board, row, col)
    IN IF IsFull(g1.Board) THEN [g1 EXCEPT !.Status = StatusDraw]
       ELSE IF winner # MarkEmpty
       THEN IF winner = MarkX THEN [g1 EXCEPT !.Status = StatusXWon]
                              ELSE [g1 EXCEPT !.Status = StatusOWon]
       ELSE [g1 EXCEPT !.Turn = Opponent(g1.Turn)]

\* the turn is never switched
MoveFinish_NoSwitch(g, row, col, now) ==
    LET g1 == [g EXCEPT !.UpdatedAt = now]
        winner == CheckWinner(g1.Board, row, col)
    IN IF winner # MarkEmpty
       THEN IF winner = MarkX THEN [g1 EXCEPT !.Status = StatusXWon]
                              ELSE [g1 EXCEPT !.Status = StatusOWon]
       ELSE IF IsFull(g1.Board) THEN [g1 EXCEPT !.Status = StatusDraw]
       ELSE g1

\* Game.MakeMove lines 85-106: after the mark is placed at (row, col)
MoveFinish(g, row, col, now) ==
    LET g1 == [g EXCEPT !.UpdatedAt = now]
        winner == CheckWinner(g1.Board, row, col)
    IN IF winner # MarkEmpty
       THEN IF winner = MarkX THEN [g1 EXCEPT !.Status = StatusXWon]
                              ELSE [g1 EXCEPT !.Status = StatusOWon]
       ELSE IF IsFull(g1.Board) THEN [g1 EXCEPT !.Status = StatusDraw]
       ELSE [g1 EXCEPT !.Turn = Opponent(g1.Turn)]

\* MakeMove that stamps updatedAt on entry, before anything is validated
GameMakeMove_StampFirst(g, playerID, row, col, now) ==
    LET g0 == [g EXCEPT !.UpdatedAt = now]
        chk == MoveCheck(g0, playerID) IN
    IF chk # Nil THEN [err |-> chk, game |-> g0]
    ELSE LET set == BoardSet(g0.Board, row, col, getPlayerMark(g0, playerID)) IN
         IF set.err # Nil THEN [err |-> set.err, game |-> g0]
         ELSE [err |-> Nil,
               game |-> MoveFinish([g0 EXCEPT !.Board = set.board], row, col, now)]

\* Game.MakeMove, the body run under g.mu
GameMakeMove(g, playerID, row, col, now) ==
    LET chk == MoveCheck(g, playerID) IN
    IF chk # Nil THEN [err |-> chk, game |-> g]
    ELSE LET set == BoardSet(g.Board, row, col, getPlayerMark(g, playerID)) IN
         IF set.err # Nil THEN [err |-> set.err, game |-> g]
         ELSE [err |-> Nil,
               game |-> MoveFinish([g EXCEPT !.Board = set.board], row, col, now)]

GetSnapshot(g) ==
    [ID |-> g.ID, PlayerX |-> g.PlayerX, PlayerO |-> g.PlayerO,
     Board |-> Clone(g.Board), Turn |-> g.Turn, Status |-> g.Status,
     CreatedAt |-> g.CreatedAt, UpdatedAt |-> g.UpdatedAt]

GetWinner(s) ==
    CASE s.Status = StatusXWon -> s.PlayerX
      [] s.Status = StatusOWon -> s.PlayerO
      [] OTHER -> ""

\* a loser query that answers with the winner
GetLoser_Winner(s) == GetWinner(s)

GetLoser(s) ==
    CASE s.Status = StatusXWon -> s.PlayerO
      [] s.Status = StatusOWon -> s.PlayerX
      [] OTHER -> ""

IsDraw(s) == s.Status = StatusDraw

----------------------------------------------------------------------------
(* GameStore (internal/store/game_store.go): the sharded map of games, as one
   value; each operator is the body a method runs under its shard's lock *)

\* game ids a caller may pass, and the code points of each id (ranged over by getShard)
GameIDs == {"g1", "g2", "g3", "g4"}

Runes(id) ==
    CASE id = "g1" -> <<103, 49>>
      [] id = "g2" -> <<103, 50>>
      [] id = "g3" -> <<103, 51>>
      [] id = "g4" -> <<103, 52>>
      [] id = "alice" -> <<97, 108, 105, 99, 101>>
      [] id = "bob" -> <<98, 111, 98>>
      [] id = "carol" -> <<99, 97, 114, 111, 108>>

\* the shards of the stores under test
NumShards == 2

NewGameStore(numShards) ==
    LET n == IF numShards < 1 THEN 64 ELSE numShards
    IN [i \in 0..(n - 1) |-> <<>>]

\* a uint32 is kept as its two 16-bit halves [hi, lo], value hi * Half + lo
Half == 65536

\* getShard lines 50-53: hash = hash*31 + uint32(c) over the id, wrapping at 2^32
RECURSIVE hashRunes(_, _)
hashRunes(cs, hash) ==
    IF cs = <<>> THEN hash
    ELSE LET lo == hash.lo * 31 + Head(cs)
         IN hashRunes(Tail(cs), [hi |-> (hash.hi * 31 + lo \div Half) % Half,
                                 lo |-> lo % Half])

\* hash % uint32(numShards)
modShards(hash, n) == ((hash.hi % n) * (Half % n) + hash.lo) % n

getShard(st, gameID) ==
    modShards(hashRunes(Runes(gameID), [hi |-> 0, lo |-> 0]), Cardinality(DOMAIN st))

StoreCreate(st, g) ==
    LET i == getShard(st, g.ID) IN
    IF g.ID \in DOMAIN st[i] THEN [err |-> ErrGameAlreadyExists, store |-> st]
    ELSE [err |-> Nil, store |-> [st EXCEPT ![i] = @ @@ (g.ID :> g)]]

StoreGet(st, gameID) ==
    LET i == getShard(st, gameID) IN
    IF gameID \notin DOMAIN st[i] THEN [err |-> ErrGameNotFound]
    ELSE [err |-> Nil, game |-> st[i][gameID]]

\* Delete that reports nothing when the id is absent, as Go's delete() does
StoreDelete_Silent(st, gameID) ==
    LET i == getShard(st, gameID) IN
    [err |-> Nil, store |-> [st EXCEPT ![i] = [k \in DOMAIN @ \ {gameID} |-> @[k]]]]

StoreDelete(st, gameID) ==
    LET i == getShard(st, gameID) IN
    IF gameID \notin DOMAIN st[i] THEN [err |-> ErrGameNotFound, store |-> st]
    ELSE [err |-> Nil,
          store |-> [st EXCEPT ![i] = [k \in DOMAIN @ \ {gameID} |-> @[k]]]]

\* the total counted after the page is cut
Paginate_TotalOfPage(pending, limit, offset) ==
    IF offset >= Len(pending) THEN [games |-> <<>>, total |-> 0]
    ELSE LET rest == SubSeq(pending, offset + 1, Len(pending))
             page == IF limit > 0 /\ Len(rest) > limit THEN SubSeq(rest, 1, limit) ELSE rest
         IN [games |-> page, total |-> Len(page)]

\* ListPending lines 115-127: the page cut out of the pending snapshots
Paginate(pending, limit, offset) ==
    LET totalCount == Len(pending) IN
    IF offset >= Len(pending) THEN [games |-> <<>>, total |-> totalCount]
    ELSE LET rest == SubSeq(pending, offset + 1, Len(pending)) IN
         [games |-> IF limit > 0 /\ Len(rest) > limit THEN SubSeq(rest, 1, limit) ELSE rest,
          total |-> totalCount]

\* every id stored, and the game stored under an id
StoredIDs(st) == UNION {DOMAIN st[i] : i \in DOMAIN st}
Stored(st, gameID) == st[getShard(st, gameID)][gameID]

\* the orders in which ListPending's two range loops may visit the games:
\* shard by shard, the games of one shard in any order (a Go map)
ScanOrders(st) ==
    LET ids == StoredIDs(st)
        n == Cardinality(ids)
        InShard(id) == CHOOSE i \in DOMAIN st : id \in DOMAIN st[i]
    IN {o \in [1..n -> ids] :
           /\ \A a, b \in 1..n : a # b => o[a] # o[b]
           /\ \A a, b \in 1..n : a < b => InShard(o[a]) <= InShard(o[b])}

\* ListPending lines 101-113 run with no other call in between
Collect(st, order) ==
    LET pend == SelectSeq(order, LAMBDA id : Stored(st, id).Status = StatusPending)
    IN [k \in 1..Len(pend) |-> GetSnapshot(Stored(st, pend[k]))]

ListPending(st, order, limit, offset) == Paginate(Collect(st, order), limit, offset)

RECURSIVE SumSizes(_, _)
SumSizes(st, i) ==
    IF i \notin DOMAIN st THEN 0 ELSE Cardinality(DOMAIN st[i]) + SumSizes(st, i + 1)

\* Count whose loop misses the first shard
Count_SkipsFirst(st) == SumSizes(st, 1)

\* Count: the sizes of the shards added up
Count(st) == SumSizes(st, 0)

\* the server's JoinGame on a stored game: Get, then Join on the game found
StoreJoin(st, gameID, playerID) ==
    LET got == StoreGet(st, gameID) IN
    IF got.err # Nil THEN [err |-> got.err, store |-> st]
    ELSE LET res == GameJoin(got.game, playerID, got.game.UpdatedAt + 1) IN
         [err |-> res.err,
          store |-> [st EXCEPT ![getShard(st, gameID)][gameID] = res.game]]

----------------------------------------------------------------------------
(* StatsStore: the map of UserStats, as one value *)

getOrCreate(st, userID) ==
    IF userID \in DOMAIN st THEN st
    ELSE st @@ (userID :> [UserID |-> userID, Wins |-> 0, Losses |-> 0, Draws |-> 0])

RecordWin(st, userID) == [getOrCreate(st, userID) EXCEPT ![userID].Wins = @ + 1]
RecordLoss(st, userID) == [getOrCreate(st, userID) EXCEPT ![userID].Losses = @ + 1]
RecordDraw(st, userID) == [getOrCreate(st, userID) EXCEPT ![userID].Draws = @ + 1]

\* a RecordGameResult that does not test its ids
RecordGameResult_NoSkip(st, winnerID, loserID, isDraw) ==
    IF isDraw
    THEN RecordDraw(RecordDraw(st, winnerID), loserID)
    ELSE RecordLoss(RecordWin(st, winnerID), loserID)

RecordGameResult(st, winnerID, loserID, isDraw) ==
    IF isDraw
    THEN LET s1 == IF winnerID # "" THEN RecordDraw(st, winnerID) ELSE st
         IN IF loserID # "" THEN RecordDraw(s1, loserID) ELSE s1
    ELSE LET s1 == IF winnerID # "" THEN RecordWin(st, winnerID) ELSE st
         IN IF loserID # "" THEN RecordLoss(s1, loserID) ELSE s1

\* TicTacToeServer.recordGameResult
recordGameResult(st, snapshot) ==
    IF IsDraw(snapshot)
    THEN RecordGameResult(st, snapshot.PlayerX, snapshot.PlayerO, TRUE)
    ELSE RecordGameResult(st, GetWinner(snapshot), GetLoser(snapshot), FALSE)

----------------------------------------------------------------------------
(* The game used through Join and MakeMove, one call at a time *)

NumMarks(b) == Cardinality({i \in DOMAIN b.Cells : b.Cells[i] # MarkEmpty})

\* coordinates a caller may pass: one step outside the board on either side
Coords(b) == (-1)..(b.Size)

\* the variables of the other specifications, parked
NoLocking ==
    /\ mu = 0
    /\ th = <<>>
    /\ lin = [ID |-> ""]
    /\ joiners = <<>>
    /\ okMoves = 0

NoServer ==
    /\ req = <<>>
    /\ stats = <<>>

NoSnap == [ID |-> ""]

NoClone ==
    /\ heap = <<>>
    /\ snap = NoSnap

NoRegistry ==
    /\ store = <<>>
    /\ lastS = [op |-> "none"]
    /\ smu = <<>>
    /\ cl = <<>>
    /\ made = <<>>
    /\ lp = [pc |-> "none"]

NoOrder ==
    /\ locks = <<>>
    /\ calls = <<>>

NoFanout ==
    /\ games = <<>>
    /\ subs = <<>>
    /\ chans = <<>>
    /\ submu = [w |-> 0, r |-> 0]
    /\ pub = <<>>
    /\ obs = <<>>
    /\ panicked = FALSE

NoReader == rd = [pc |-> "none"]

NoStats ==
    /\ ushards = <<>>
    /\ urecs = <<>>
    /\ umu = <<>>
    /\ wk = <<>>
    /\ tally = <<>>
    /\ lastU = [op |-> "none"]

NoBoard == [Size |-> 0, WinLength |-> 0, Cells |-> <<>>]
NoCallB == [op |-> "none", row |-> 0, col |-> 0, mark |-> 0, err |-> "nil"]

Init ==
    /\ clock = 1
    /\ game = NewGame("g1", Creator, DefaultBoardSize, DefaultWinLength, 1).game
    /\ last = [op |-> "NewGame", err |-> Nil]
    /\ board = NoBoard
    /\ lastB = NoCallB
    /\ NoOrder
    /\ NoFanout
    /\ NoReader
    /\ NoStats
    /\ NoRegistry
    /\ NoClone
    /\ NoLocking
    /\ NoServer

\* time.Now() is read only when a call succeeds
Tick(err) == IF err = Nil THEN clock + 1 ELSE clock

Join(playerID) ==
    LET res == GameJoin(game, playerID, clock + 1) IN
    /\ game' = res.game
    /\ clock' = Tick(res.err)
    /\ last' = [op |-> "Join", err |-> res.err]
    /\ UNCHANGED notGame

MakeMove(playerID, row, col) ==
    LET res == GameMakeMove(game, playerID, row, col, clock + 1) IN
    /\ game' = res.game
    /\ clock' = Tick(res.err)
    /\ last' = [op |-> "MakeMove", err |-> res.err]
    /\ UNCHANGED notGame

Next ==
    \/ \E p \in UserIDs : Join(p)
    \/ \E p \in UserIDs : \E r \in Coords(game.Board) : \E c \in Coords(game.Board) :
          MakeMove(p, r, c)

Spec == Init /\ [][Next]_vars

----------------------------------------------------------------------------
(* A Board used directly through Set and Get, one call at a time *)

\* Set is called until the board holds this many marks
MaxSets == 3

NoGame == [ID |-> ""]
NoCall == [op |-> "none"]

InitBoard ==
    /\ board = NewBoard(DefaultBoardSize, DefaultWinLength).board
    /\ lastB = [op |-> "NewBoard", row |-> 0, col |-> 0, mark |-> MarkEmpty, err |-> Nil]
    /\ game = NoGame
    /\ clock = 0
    /\ last = NoCall
    /\ NoOrder
    /\ NoFanout
    /\ NoReader
    /\ NoStats
    /\ NoRegistry
    /\ NoClone
    /\ NoLocking
    /\ NoServer

Set(row, col, mark) ==
    LET res == BoardSet(board, row, col, mark) IN
    /\ NumMarks(board) < MaxSets
    /\ board' = res.board
    /\ lastB' = [op |-> "Set", row |-> row, col |-> col, mark |-> mark, err |-> res.err]
    /\ UNCHANGED notBoard

Get(row, col) ==
    LET res == BoardGet(board, row, col) IN
    /\ lastB' = [op |-> "Get", row |-> row, col |-> col, mark |-> res.mark, err |-> res.err]
    /\ UNCHANGED <<board, notBoard>>

NextBoard ==
    \/ \E r \in Coords(board) : \E c \in Coords(board) : \E m \in Marks : Set(r, c, m)
    \/ \E r \in Coords(board) : \E c \in Coords(board) : Get(r, c)

SpecBoard == InitBoard /\ [][NextBoard]_vars

----------------------------------------------------------------------------
(* Join and MakeMove called from several threads, statement by statement
   under g.mu.  A call that has not yet taken g.mu has touched nothing, so
   a call is followed from its Lock on. *)

\* the number of calling threads
NumThreads == 2
\* calls are made until the board holds this many marks
MaxLockMarks == 3

Threads == 1..NumThreads
Cells(b) == 0..(b.Size - 1)

IdleTh == [pc |-> "idle", op |-> "none", playerID |-> "", row |-> 0, col |-> 0,
           mark |-> MarkEmpty, err |-> Nil, expect |-> Nil]

\* a sync.RWMutex with no holder never blocks
CanLock_Always(m) == TRUE

\* sync.RWMutex.Lock returns once nobody holds the mutex
CanLock(m) == m = 0

InitLock ==
    /\ clock = 1
    /\ game = NewGame("g1", Creator, DefaultBoardSize, DefaultWinLength, 1).game
    /\ last = [op |-> "NewGame", err |-> Nil]
    /\ mu = 0
    /\ th = [t \in Threads |-> IdleTh]
    /\ lin = game
    /\ joiners = <<>>
    /\ okMoves = 0
    /\ board = NoBoard
    /\ lastB = NoCallB
    /\ NoOrder
    /\ NoFanout
    /\ NoReader
    /\ NoStats
    /\ NoRegistry
    /\ NoClone
    /\ NoServer

\* Join line 43
LockJoin(t, playerID) ==
    LET res == GameJoin(lin, playerID, clock + 1) IN
    /\ th[t].pc = "idle"
    /\ NumMarks(game.Board) < MaxLockMarks
    /\ CanLock(mu)
    /\ mu' = t
    /\ lin' = res.game
    /\ th' = [th EXCEPT ![t] = [IdleTh EXCEPT !.pc = "jcheck", !.op = "Join",
                                              !.playerID = playerID, !.expect = res.err]]
    /\ UNCHANGED <<gameVars, joiners, okMoves, notLock>>

\* Join lines 46-51
JoinChecked(t) ==
    LET err == JoinCheck(game, th[t].playerID) IN
    /\ th[t].pc = "jcheck"
    /\ th' = [th EXCEPT ![t].pc = IF err # Nil THEN "unlock" ELSE "jplayer",
                        ![t].err = err]
    /\ UNCHANGED <<gameVars, mu, lin, joiners, okMoves, notLock>>

\* Join line 53
JoinSetPlayer(t) ==
    /\ th[t].pc = "jplayer"
    /\ game' = [game EXCEPT !.PlayerO = th[t].playerID]
    /\ th' = [th EXCEPT ![t].pc = "jstatus"]
    /\ UNCHANGED <<clock, last, mu, lin, joiners, okMoves, notLock>>

\* Join lines 54-56
JoinSetStatus(t) ==
    /\ th[t].pc = "jstatus"
    /\ game' = [game EXCEPT !.Status = StatusInProgress, !.UpdatedAt = clock + 1]
    /\ clock' = clock + 1
    /\ th' = [th EXCEPT ![t].pc = "unlock", ![t].err = Nil]
    /\ UNCHANGED <<last, mu, lin, joiners, okMoves, notLock>>

\* MakeMove line 61
LockMove(t, playerID, row, col) ==
    LET res == GameMakeMove(lin, playerID, row, col, clock + 1) IN
    /\ th[t].pc = "idle"
    /\ NumMarks(game.Board) < MaxLockMarks
    /\ CanLock(mu)
    /\ mu' = t
    /\ lin' = res.game
    /\ th' = [th EXCEPT ![t] = [IdleTh EXCEPT !.pc = "mcheck", !.op = "MakeMove",
                                              !.playerID = playerID, !.row = row,
                                              !.col = col, !.expect = res.err]]
    /\ UNCHANGED <<gameVars, joiners, okMoves, notLock>>

\* MakeMove lines 64-78
MoveChecked(t) ==
    LET err == MoveCheck(game, th[t].playerID) IN
    /\ th[t].pc = "mcheck"
    /\ th' = [th EXCEPT ![t].pc = IF err # Nil THEN "unlock" ELSE "mset",
                        ![t].mark = getPlayerMark(game, th[t].playerID),
                        ![t].err = err]
    /\ UNCHANGED <<gameVars, mu, lin, joiners, okMoves, notLock>>

\* MakeMove lines 81-83
MoveSet(t) ==
    LET res == BoardSet(game.Board, th[t].row, th[t].col, th[t].mark) IN
    /\ th[t].pc = "mset"
    /\ game' = [game EXCEPT !.Board = res.board]
    /\ th' = [th EXCEPT ![t].pc = IF res.err # Nil THEN "unlock" ELSE "mfinish",
                        ![t].err = res.err]
    /\ UNCHANGED <<clock, last, mu, lin, joiners, okMoves, notLock>>

\* MakeMove lines 85-106
MoveFinished(t) ==
    /\ th[t].pc = "mfinish"
    /\ game' = MoveFinish(game, th[t].row, th[t].col, clock + 1)
    /\ clock' = clock + 1
    /\ th' = [th EXCEPT ![t].pc = "unlock", ![t].err = Nil]
    /\ UNCHANGED <<last, mu, lin, joiners, okMoves, notLock>>

\* the deferred g.mu.Unlock() and the return
Unlock(t) ==
    /\ th[t].pc = "unlock"
    /\ mu' = 0
    /\ last' = [op |-> th[t].op, err |-> th[t].err]
    /\ joiners' = IF th[t].op = "Join" /\ th[t].err = Nil
                  THEN Append(joiners, th[t].playerID) ELSE joiners
    /\ okMoves' = IF th[t].op = "MakeMove" /\ th[t].err = Nil
                  THEN okMoves + 1 ELSE okMoves
    /\ th' = [th EXCEPT ![t] = IdleTh]
    /\ UNCHANGED <<game, clock, lin, notLock>>

NextLock ==
    \/ \E t \in Threads : \E p \in UserIDs : LockJoin(t, p)
    \/ \E t \in Threads : JoinChecked(t)
    \/ \E t \in Threads : JoinSetPlayer(t)
    \/ \E t \in Threads : JoinSetStatus(t)
    \/ \E t \in Threads : \E p \in UserIDs :
          \E r \in Cells(game.Board) : \E c \in Cells(game.Board) : LockMove(t, p, r, c)
    \/ \E t \in Threads : MoveChecked(t)
    \/ \E t \in Threads : MoveSet(t)
    \/ \E t \in Threads : MoveFinished(t)
    \/ \E t \in Threads : Unlock(t)

SpecLock == InitLock /\ [][NextLock]_vars

\* a reader that does not wait for the writer
CanRLock_Always(m) == TRUE

\* sync.RWMutex.RLock returns once no writer holds the mutex
CanRLock(m) == m = 0

\* Game.GetSnapshot lines 136-150, called by any goroutine while others are
\* inside Join / MakeMove: the fields are read under the read lock
ReadSnapshot ==
    /\ CanRLock(mu)
    /\ last' = [op |-> "GetSnapshot", err |-> Nil, snapshot |-> GetSnapshot(game)]
    /\ UNCHANGED <<game, clock, lockVars, notLock>>

NextRead ==
    \/ NextLock
    \/ ReadSnapshot

SpecRead == InitLock /\ [][NextRead]_vars


----------------------------------------------------------------------------
(* The server's JoinGame and MakeMove handlers, run by several requests at
   once on the stored game.  Game.Join, Game.MakeMove and Game.GetSnapshot
   each run under g.mu and are one step each; the handler's steps between
   them interleave with other requests.  No observer is subscribed, so
   broadcastUpdate finds no channel to send on; a response leaves the
   server and is no part of its state. *)

\* the number of requests in flight at once
NumHandlers == 2

Handlers == 1..NumHandlers

\* the fields of its snapshot that a handler still reads after taking it
ResultView(snapshot) ==
    [Status |-> snapshot.Status, PlayerX |-> snapshot.PlayerX, PlayerO |-> snapshot.PlayerO]

IdleReq == [pc |-> "idle", snap |-> [Status |-> StatusPending, PlayerX |-> "", PlayerO |-> ""]]

\* request fields: a known and an unknown game id, an empty user id
JoinRequests ==
    ({"g1"} \X UserIDs) \cup {<<"g0", "bob">>, <<"", "bob">>, <<"g1", "">>}
MoveRequests ==
    {<<"g1", u, r, c>> : u \in UserIDs, r \in 0..(DefaultBoardSize - 1),
                          c \in 0..(DefaultBoardSize - 1)}
      \cup {<<"g0", "alice", 0, 0>>, <<"", "alice", 0, 0>>, <<"g1", "", 0, 0>>}

InitServer ==
    /\ clock = 1
    /\ game = NewGame("g1", Creator, DefaultBoardSize, DefaultWinLength, 1).game
    /\ last = [op |-> "CreateGame", err |-> Nil]
    /\ req = [h \in Handlers |-> IdleReq]
    /\ stats = <<>>
    /\ board = NoBoard
    /\ lastB = NoCallB
    /\ NoOrder
    /\ NoFanout
    /\ NoReader
    /\ NoStats
    /\ NoRegistry
    /\ NoClone
    /\ NoLocking

\* what a handler validates before it reaches the game (server.go 113-126, 154-167)
RequestError(gameID, userID) ==
    IF userID = "" THEN "InvalidArgument"
    ELSE IF gameID = "" THEN "InvalidArgument"
    ELSE IF gameID # game.ID THEN "NotFound"
    ELSE Nil

\* JoinGame lines 112-137
SrvJoinGame(h, gameID, userID) ==
    LET pre == RequestError(gameID, userID)
        res == GameJoin(game, userID, clock + 1)
    IN /\ req[h].pc = "idle"
       /\ IF pre # Nil
          THEN UNCHANGED <<game, clock, req>>
          ELSE IF res.err # Nil
          THEN UNCHANGED <<game, clock, req>>
          ELSE /\ game' = res.game
               /\ clock' = clock + 1
               /\ req' = [req EXCEPT ![h].pc = "join_snapshot"]
       /\ UNCHANGED <<last, stats, notServer>>

\* JoinGame line 139
SrvJoinSnapshot(h) ==
    /\ req[h].pc = "join_snapshot"
    /\ req' = [req EXCEPT ![h] = [pc |-> "join_respond",
                                  snap |-> ResultView(GetSnapshot(game))]]
    /\ UNCHANGED <<gameVars, stats, notServer>>

\* JoinGame lines 141-149
SrvJoinRespond(h) ==
    /\ req[h].pc = "join_respond"
    /\ req' = [req EXCEPT ![h] = IdleReq]
    /\ UNCHANGED <<gameVars, stats, notServer>>

\* MakeMove lines 153-184
SrvMakeMove(h, gameID, userID, row, col) ==
    LET pre == RequestError(gameID, userID)
        res == GameMakeMove(game, userID, row, col, clock + 1)
    IN /\ req[h].pc = "idle"
       /\ IF pre # Nil
          THEN UNCHANGED <<game, clock, req>>
          ELSE IF res.err # Nil
          THEN UNCHANGED <<game, clock, req>>
          ELSE /\ game' = res.game
               /\ clock' = clock + 1
               /\ req' = [req EXCEPT ![h].pc = "move_snapshot"]
       /\ UNCHANGED <<last, stats, notServer>>

\* MakeMove lines 186-189
SrvMoveSnapshot(h) ==
    LET snapshot == GetSnapshot(game) IN
    /\ req[h].pc = "move_snapshot"
    /\ req' = [req EXCEPT ![h] = [pc |-> IF IsFinished(snapshot.Status)
                                         THEN "move_record" ELSE "move_respond",
                                  snap |-> ResultView(snapshot)]]
    /\ UNCHANGED <<gameVars, stats, notServer>>

\* MakeMove line 190
SrvMoveRecord(h) ==
    /\ req[h].pc = "move_record"
    /\ stats' = recordGameResult(stats, req[h].snap)
    /\ req' = [req EXCEPT ![h].pc = "move_respond"]
    /\ UNCHANGED <<gameVars, notServer>>

\* MakeMove lines 193-201
SrvMoveRespond(h) ==
    /\ req[h].pc = "move_respond"
    /\ req' = [req EXCEPT ![h] = IdleReq]
    /\ UNCHANGED <<gameVars, stats, notServer>>

NextServer ==
    \/ \E h \in Handlers : \E r \in JoinRequests : SrvJoinGame(h, r[1], r[2])
    \/ \E h \in Handlers : SrvJoinSnapshot(h)
    \/ \E h \in Handlers : SrvJoinRespond(h)
    \/ \E h \in Handlers : \E r \in MoveRequests : SrvMakeMove(h, r[1], r[2], r[3], r[4])
    \/ \E h \in Handlers : SrvMoveSnapshot(h)
    \/ \E h \in Handlers : SrvMoveRecord(h)
    \/ \E h \in Handlers : SrvMoveRespond(h)

SpecServer == InitServer /\ [][NextServer]_vars

----------------------------------------------------------------------------
(* Board.Clone and Game.GetSnapshot with the cells held by reference: a Go
   slice names a backing array, so a board is its Size, WinLength and the
   address of its cells; the game writes through its board's address *)

\* the live game is played until its board holds this many marks
MaxCloneMarks == 1

\* a caller writes on its snapshot's board until that holds this many marks
MaxSnapshotMarks == 2

\* the backing array made by NewBoard
LiveCells == 1

\* the board value behind a *Board
Load(h, b) == [b EXCEPT !.Cells = h[b.Cells]]

LoadGame(h, g) == [g EXCEPT !.Board = Load(h, g.Board)]

\* make([]Mark, n): an address no array lives at
Fresh(h) == CHOOSE a \in 1..(Cardinality(DOMAIN h) + 1) : a \notin DOMAIN h

\* a struct copy: the clone's slice names the source's backing array
CloneAt_Shallow(h, b) == [heap |-> h, board |-> b]

\* Board.Clone: a new array, then copy
CloneAt(h, b) ==
    LET a == Fresh(h) IN
    [heap |-> h @@ (a :> Clone(Load(h, b)).Cells), board |-> [b EXCEPT !.Cells = a]]

\* Game.GetSnapshot: the scalar fields by value, the board cloned
SnapshotAt(h, g) ==
    LET c == CloneAt(h, g.Board) IN
    [heap |-> c.heap, snap |-> [GetSnapshot(LoadGame(h, g)) EXCEPT !.Board = c.board]]

\* what stays reachable once the caller lets go of its previous snapshot
Keep(h, g) == [a \in {g.Board.Cells} |-> h[a]]

InitClone ==
    /\ clock = 1
    /\ heap = (LiveCells :> NewBoard(DefaultBoardSize, DefaultWinLength).board.Cells)
    /\ game = [NewGame("g1", Creator, DefaultBoardSize, DefaultWinLength, 1).game
                 EXCEPT !.Board.Cells = LiveCells]
    /\ snap = NoSnap
    /\ last = [op |-> "NewGame", err |-> Nil]
    /\ board = NoBoard
    /\ lastB = NoCallB
    /\ NoOrder
    /\ NoFanout
    /\ NoReader
    /\ NoStats
    /\ NoRegistry
    /\ NoLocking
    /\ NoServer

\* the game after a call, its cells written back through the board's address
WriteBack(res) ==
    /\ game' = [res.game EXCEPT !.Board.Cells = game.Board.Cells]
    /\ heap' = [heap EXCEPT ![game.Board.Cells] = res.game.Board.Cells]
    /\ clock' = Tick(res.err)

LiveJoin(playerID) ==
    /\ WriteBack(GameJoin(LoadGame(heap, game), playerID, clock + 1))
    /\ UNCHANGED <<snap, last, notClone>>

LiveMove(playerID, row, col) ==
    /\ NumMarks(Load(heap, game.Board)) < MaxCloneMarks
    /\ WriteBack(GameMakeMove(LoadGame(heap, game), playerID, row, col, clock + 1))
    /\ UNCHANGED <<snap, last, notClone>>

TakeSnapshot ==
    LET s == SnapshotAt(Keep(heap, game), game) IN
    /\ heap' = s.heap
    /\ snap' = s.snap
    /\ UNCHANGED <<gameVars, notClone>>

\* the caller places a mark on the board of the snapshot it holds
SnapshotSet(row, col, mark) ==
    /\ snap # NoSnap
    /\ NumMarks(Load(heap, snap.Board)) < MaxSnapshotMarks
    /\ heap' = [heap EXCEPT ![snap.Board.Cells] =
                     BoardSet(Load(heap, snap.Board), row, col, mark).board.Cells]
    /\ UNCHANGED <<snap, gameVars, notClone>>

NextClone ==
    \/ \E p \in UserIDs : LiveJoin(p)
    \/ \E p \in UserIDs : \E r \in Coords(game.Board) : \E c \in Coords(game.Board) :
          LiveMove(p, r, c)
    \/ TakeSnapshot
    \/ \E r \in Coords(game.Board) : \E c \in Coords(game.Board) : \E m \in {MarkX, MarkO} :
          SnapshotSet(r, c, m)

SpecClone == InitClone /\ [][NextClone]_vars

----------------------------------------------------------------------------
(* The GameStore used one call at a time *)

\* ListPending is called with limits up to MaxLimit and offsets up to MaxOffset
MaxLimit == 2
MaxOffset == 4

notStore == <<smu, cl, made, lp, gameVars, boardVars, lockVars, srvVars, cloneVars, statVars, readVars, fanVars, ordVars>>

InitStore ==
    /\ store = NewGameStore(NumShards)
    /\ lastS = [op |-> "NewGameStore"]
    /\ smu = <<>>
    /\ cl = <<>>
    /\ made = <<>>
    /\ lp = [pc |-> "none"]
    /\ game = NoGame
    /\ clock = 0
    /\ last = NoCall
    /\ board = NoBoard
    /\ lastB = NoCallB
    /\ NoOrder
    /\ NoFanout
    /\ NoReader
    /\ NoStats
    /\ NoClone
    /\ NoLocking
    /\ NoServer

RegCreate(gameID) ==
    LET g == NewGame(gameID, Creator, DefaultBoardSize, DefaultWinLength, 1).game
        res == StoreCreate(store, g) IN
    /\ store' = res.store
    /\ lastS' = [op |-> "Create", id |-> gameID, err |-> res.err]
    /\ UNCHANGED notStore

RegGet(gameID) ==
    LET res == StoreGet(store, gameID) IN
    /\ lastS' = [op |-> "Get", id |-> gameID, err |-> res.err,
                 game |-> IF res.err = Nil THEN res.game ELSE NoGame]
    /\ UNCHANGED <<store, notStore>>

RegDelete(gameID) ==
    LET res == StoreDelete(store, gameID) IN
    /\ store' = res.store
    /\ lastS' = [op |-> "Delete", id |-> gameID, err |-> res.err]
    /\ UNCHANGED notStore

RegJoin(gameID, playerID) ==
    LET res == StoreJoin(store, gameID, playerID) IN
    /\ store' = res.store
    /\ lastS' = [op |-> "Join", id |-> gameID, err |-> res.err]
    /\ UNCHANGED notStore

RegListPending(limit, offset) ==
    \E order \in ScanOrders(store) :
        LET res == ListPending(store, order, limit, offset) IN
        /\ lastS' = [op |-> "ListPending", limit |-> limit, offset |-> offset,
                     games |-> res.games, total |-> res.total]
        /\ UNCHANGED <<store, notStore>>

RegCount ==
    /\ lastS' = [op |-> "Count", n |-> Count(store)]
    /\ UNCHANGED <<store, notStore>>

NextStore ==
    \/ \E id \in GameIDs : RegCreate(id)
    \/ \E id \in GameIDs : RegGet(id)
    \/ \E id \in GameIDs : RegDelete(id)
    \/ \E id \in GameIDs : \E p \in UserIDs : RegJoin(id, p)
    \/ \E limit \in 0..MaxLimit : \E offset \in 0..MaxOffset : RegListPending(limit, offset)
    \/ RegCount

SpecStore == InitStore /\ [][NextStore]_vars

----------------------------------------------------------------------------
(* The GameStore with Create and Delete run statement by statement from
   several threads, each under the lock of its id's shard *)

\* threads calling Create / Delete
NumClients == 2
Clients == 1..NumClients

\* the ids the threads contend for, and the users who create and join the games
ShardIDs == {"g1", "g2", "g3"}
Creators == {"alice", "bob"}

IdleCl == [pc |-> "idle", op |-> "none", id |-> "", g |-> NoGame, err |-> Nil]

notShard == <<lastS, lp, gameVars, boardVars, lockVars, srvVars, cloneVars, statVars, readVars, fanVars, ordVars>>

\* a writer that does not wait
CanLockShard_Always(m) == TRUE

\* shard.mu.Lock returns once no writer and no reader holds the mutex
CanLockShard(m) == m.w = 0 /\ m.r = 0

\* shard.mu.RLock returns once no writer holds the mutex
CanRLockShard(m) == m.w = 0

InitShard ==
    /\ store = NewGameStore(NumShards)
    /\ smu = [i \in DOMAIN store |-> [w |-> 0, r |-> 0]]
    /\ cl = [t \in Clients |-> IdleCl]
    /\ made = [id \in ShardIDs |-> [net |-> 0, by |-> ""]]
    /\ lastS = [op |-> "NewGameStore"]
    /\ lp = [pc |-> "none"]
    /\ game = NoGame
    /\ clock = 0
    /\ last = NoCall
    /\ board = NoBoard
    /\ lastB = NoCallB
    /\ NoOrder
    /\ NoFanout
    /\ NoReader
    /\ NoStats
    /\ NoClone
    /\ NoLocking
    /\ NoServer

\* Create lines 59-60
CreateLock(t, gameID, creatorID) ==
    /\ cl[t].pc = "idle"
    /\ CanLockShard(smu[getShard(store, gameID)])
    /\ smu' = [smu EXCEPT ![getShard(store, gameID)].w = t]
    /\ cl' = [cl EXCEPT ![t] = [IdleCl EXCEPT !.pc = "ccheck", !.op = "Create", !.id = gameID,
                  !.g = NewGame(gameID, creatorID, DefaultBoardSize, DefaultWinLength, 1).game]]
    /\ UNCHANGED <<store, made, notShard>>

\* Create lines 63-65
CreateCheck(t) ==
    /\ cl[t].pc = "ccheck"
    /\ cl' = IF cl[t].id \in DOMAIN store[getShard(store, cl[t].id)]
             THEN [cl EXCEPT ![t].pc = "unlock", ![t].err = ErrGameAlreadyExists]
             ELSE [cl EXCEPT ![t].pc = "cinsert"]
    /\ UNCHANGED <<store, smu, made, notShard>>

\* Create lines 67-68: the map assignment
CreateInsert(t) ==
    /\ cl[t].pc = "cinsert"
    /\ store' = [store EXCEPT ![getShard(store, cl[t].id)] =
                     [k \in DOMAIN @ \cup {cl[t].id} |-> IF k = cl[t].id THEN cl[t].g ELSE @[k]]]
    /\ cl' = [cl EXCEPT ![t].pc = "unlock", ![t].err = Nil]
    /\ UNCHANGED <<smu, made, notShard>>

\* Delete lines 87-88
DeleteLock(t, gameID) ==
    /\ cl[t].pc = "idle"
    /\ CanLockShard(smu[getShard(store, gameID)])
    /\ smu' = [smu EXCEPT ![getShard(store, gameID)].w = t]
    /\ cl' = [cl EXCEPT ![t] = [IdleCl EXCEPT !.pc = "dcheck", !.op = "Delete", !.id = gameID]]
    /\ UNCHANGED <<store, made, notShard>>

\* Delete lines 91-93
DeleteCheck(t) ==
    /\ cl[t].pc = "dcheck"
    /\ cl' = IF cl[t].id \notin DOMAIN store[getShard(store, cl[t].id)]
             THEN [cl EXCEPT ![t].pc = "unlock", ![t].err = ErrGameNotFound]
             ELSE [cl EXCEPT ![t].pc = "dremove"]
    /\ UNCHANGED <<store, smu, made, notShard>>

\* Delete lines 95-96
DeleteRemove(t) ==
    /\ cl[t].pc = "dremove"
    /\ store' = [store EXCEPT ![getShard(store, cl[t].id)] =
                     [k \in DOMAIN @ \ {cl[t].id} |-> @[k]]]
    /\ cl' = [cl EXCEPT ![t].pc = "unlock", ![t].err = Nil]
    /\ UNCHANGED <<smu, made, notShard>>

\* the deferred shard.mu.Unlock() and the return
ShardUnlock(t) ==
    /\ cl[t].pc = "unlock"
    /\ smu' = [smu EXCEPT ![getShard(store, cl[t].id)].w = 0]
    /\ made' = IF cl[t].err # Nil THEN made
               ELSE IF cl[t].op = "Create"
               THEN [made EXCEPT ![cl[t].id] = [net |-> @.net + 1, by |-> cl[t].g.PlayerX]]
               ELSE [made EXCEPT ![cl[t].id] = [net |-> @.net - 1, by |-> ""]]
    /\ cl' = [cl EXCEPT ![t] = IdleCl]
    /\ UNCHANGED <<store, notShard>>

\* the server's JoinGame from any goroutine: Get under the shard's read lock, then g.Join
ShardJoin(gameID, playerID) ==
    /\ CanRLockShard(smu[getShard(store, gameID)])
    /\ store' = StoreJoin(store, gameID, playerID).store
    /\ UNCHANGED <<smu, cl, made, notShard>>

\* Get from any goroutine, under the shard's read lock
ShardGet(gameID) ==
    /\ CanRLockShard(smu[getShard(store, gameID)])
    /\ lastS' = [op |-> "Get", err |-> StoreGet(store, gameID).err]
    /\ UNCHANGED <<store, smu, cl, made, lp, gameVars, boardVars, lockVars, srvVars, cloneVars, statVars, readVars, fanVars, ordVars>>

NextShard ==
    \/ \E t \in Clients : \E id \in ShardIDs : \E c \in Creators : CreateLock(t, id, c)
    \/ \E t \in Clients : CreateCheck(t)
    \/ \E t \in Clients : CreateInsert(t)
    \/ \E t \in Clients : \E id \in ShardIDs : DeleteLock(t, id)
    \/ \E t \in Clients : DeleteCheck(t)
    \/ \E t \in Clients : DeleteRemove(t)
    \/ \E t \in Clients : ShardUnlock(t)
    \/ \E id \in ShardIDs : \E p \in Creators : ShardJoin(id, p)
    \/ \E id \in ShardIDs : ShardGet(id)

SpecShard == InitShard /\ [][NextShard]_vars

----------------------------------------------------------------------------
(* ListPending run statement by statement while other goroutines create,
   join and delete games: the shard's read lock is held around the inner
   loop, g.mu only inside GetStatus and inside GetSnapshot *)

IdleLp == [pc |-> "idle", shard |-> 0, todo |-> {}, cur |-> "", pending |-> <<>>]

notList == <<cl, made, gameVars, boardVars, lockVars, srvVars, cloneVars, statVars, readVars, fanVars, ordVars>>

InitList ==
    /\ store = NewGameStore(NumShards)
    /\ smu = [i \in DOMAIN store |-> [w |-> 0, r |-> 0]]
    /\ lp = IdleLp
    /\ lastS = [op |-> "NewGameStore"]
    /\ cl = <<>>
    /\ made = <<>>
    /\ game = NoGame
    /\ clock = 0
    /\ last = NoCall
    /\ board = NoBoard
    /\ lastB = NoCallB
    /\ NoOrder
    /\ NoFanout
    /\ NoReader
    /\ NoStats
    /\ NoClone
    /\ NoLocking
    /\ NoServer

\* ListPending line 101; the caller has let go of the previous result
LpStart ==
    /\ lp.pc = "idle"
    /\ lp' = [IdleLp EXCEPT !.pc = "rlock"]
    /\ lastS' = [op |-> "none"]
    /\ UNCHANGED <<store, smu, notList>>

\* ListPending lines 104-106: the next shard is read-locked and its map ranged over
LpRLock ==
    /\ lp.pc = "rlock"
    /\ CanRLockShard(smu[lp.shard])
    /\ smu' = [smu EXCEPT ![lp.shard].r = @ + 1]
    /\ lp' = [lp EXCEPT !.pc = "iter", !.todo = DOMAIN store[lp.shard]]
    /\ UNCHANGED <<store, lastS, notList>>

\* ListPending line 107: g.GetStatus() of the next game of the map, in any order
LpGetStatus(gameID) ==
    /\ lp.pc = "iter"
    /\ gameID \in lp.todo
    /\ lp' = IF store[lp.shard][gameID].Status = StatusPending
             THEN [lp EXCEPT !.pc = "snap", !.cur = gameID]
             ELSE [lp EXCEPT !.todo = @ \ {gameID}]
    /\ UNCHANGED <<store, smu, lastS, notList>>

\* ListPending lines 108-109: g.GetSnapshot() and the append
LpGetSnapshot ==
    /\ lp.pc = "snap"
    /\ lp' = [lp EXCEPT !.pc = "iter", !.cur = "", !.todo = @ \ {lp.cur},
                         !.pending = Append(@, GetSnapshot(store[lp.shard][lp.cur]))]
    /\ UNCHANGED <<store, smu, lastS, notList>>

\* ListPending line 112, and on to the next shard
LpRUnlock ==
    /\ lp.pc = "iter"
    /\ lp.todo = {}
    /\ smu' = [smu EXCEPT ![lp.shard].r = @ - 1]
    /\ lp' = IF lp.shard + 1 \in DOMAIN store
             THEN [lp EXCEPT !.pc = "rlock", !.shard = @ + 1]
             ELSE [lp EXCEPT !.pc = "page"]
    /\ UNCHANGED <<store, lastS, notList>>

\* ListPending lines 115-127
LpReturn(limit, offset) ==
    LET res == Paginate(lp.pending, limit, offset) IN
    /\ lp.pc = "page"
    /\ lastS' = [op |-> "ListPending", limit |-> limit, offset |-> offset,
                 games |-> res.games, total |-> res.total]
    /\ lp' = IdleLp
    /\ UNCHANGED <<store, smu, notList>>

\* Create and Delete by other goroutines, under the shard's write lock
ListCreate(gameID) ==
    /\ CanLockShard(smu[getShard(store, gameID)])
    /\ store' = StoreCreate(store, NewGame(gameID, Creator, DefaultBoardSize,
                                            DefaultWinLength, 1).game).store
    /\ UNCHANGED <<smu, lp, lastS, notList>>

ListDelete(gameID) ==
    /\ CanLockShard(smu[getShard(store, gameID)])
    /\ store' = StoreDelete(store, gameID).store
    /\ UNCHANGED <<smu, lp, lastS, notList>>

\* the server's JoinGame by another goroutine: Get under the read lock, Join under g.mu
ListJoin(gameID, playerID) ==
    /\ CanRLockShard(smu[getShard(store, gameID)])
    /\ store' = StoreJoin(store, gameID, playerID).store
    /\ UNCHANGED <<smu, lp, lastS, notList>>

NextList ==
    \/ LpStart
    \/ LpRLock
    \/ \E id \in ShardIDs : LpGetStatus(id)
    \/ LpGetSnapshot
    \/ LpRUnlock
    \/ \E limit \in 0..MaxLimit : \E offset \in 0..MaxOffset : LpReturn(limit, offset)
    \/ \E id \in ShardIDs : ListCreate(id)
    \/ \E id \in ShardIDs : ListDelete(id)
    \/ \E id \in ShardIDs : \E p \in Creators \cup {"carol"} : ListJoin(id, p)

SpecList == InitList /\ [][NextList]_vars

----------------------------------------------------------------------------
(* The StatsStore with RecordWin / RecordLoss / RecordDraw run statement by
   statement from several threads: getOrCreate's look-up under the read
   lock, its second look under the write lock, the creation of the record,
   then the atomic add on the record the thread holds a pointer to *)

\* threads calling RecordWin / RecordLoss / RecordDraw
NumWorkers == 2
Workers == 1..NumWorkers

\* record calls are started until this many have been started
MaxCalls == 3

\* the users whose results are recorded
StatUsers == {"alice", "bob"}

Counters0 == [Wins |-> 0, Losses |-> 0, Draws |-> 0]

IdleWk == [pc |-> "idle", op |-> "none", userID |-> "", stats |-> 0]

notStats == <<lastU, gameVars, boardVars, lockVars, srvVars, cloneVars, regVars, readVars, fanVars, ordVars>>

NewStatsStore(numShards) ==
    LET n == IF numShards < 1 THEN 64 ELSE numShards
    IN [i \in 0..(n - 1) |-> <<>>]

\* StatsStore.getShard
statsShard(sh, userID) ==
    modShards(hashRunes(Runes(userID), [hi |-> 0, lo |-> 0]), Cardinality(DOMAIN sh))

\* the largest int32
MaxInt32 == 2147483647

\* an add that counts down
AddInt32_Down(x) == x - 1

\* atomic.AddInt32(&x, 1): int32 addition, wrapping past MaxInt32
AddInt32(x) == IF x = MaxInt32 THEN (-MaxInt32) - 1 ELSE x + 1

InitStats ==
    /\ ushards = NewStatsStore(NumShards)
    /\ urecs = <<>>
    /\ umu = [i \in DOMAIN ushards |-> [w |-> 0, r |-> 0]]
    /\ wk = [t \in Workers |-> IdleWk]
    /\ tally = [u \in StatUsers |-> Counters0]
    /\ lastU = [op |-> "NewStatsStore"]
    /\ game = NoGame
    /\ clock = 0
    /\ last = NoCall
    /\ board = NoBoard
    /\ lastB = NoCallB
    /\ NoOrder
    /\ NoFanout
    /\ NoReader
    /\ NoClone
    /\ NoRegistry
    /\ NoLocking
    /\ NoServer

CallsStarted ==
    Cardinality({t \in Workers : wk[t].pc # "idle"})
    + Cardinality({<<u, k>> \in StatUsers \X (1..MaxCalls) :
                      tally[u].Wins + tally[u].Losses + tally[u].Draws >= k})

\* getOrCreate lines 258-264: the look-up under the read lock
GocRead(t, op, userID) ==
    LET i == statsShard(ushards, userID) IN
    /\ wk[t].pc = "idle"
    /\ CallsStarted < MaxCalls
    /\ CanRLockShard(umu[i])
    /\ wk' = [wk EXCEPT ![t] =
                 IF userID \in DOMAIN ushards[i]
                 THEN [pc |-> "add", op |-> op, userID |-> userID, stats |-> ushards[i][userID]]
                 ELSE [pc |-> "lock", op |-> op, userID |-> userID, stats |-> 0]]
    /\ UNCHANGED <<ushards, urecs, umu, tally, notStats>>

\* getOrCreate lines 267-268
GocLock(t) ==
    LET i == statsShard(ushards, wk[t].userID) IN
    /\ wk[t].pc = "lock"
    /\ CanLockShard(umu[i])
    /\ umu' = [umu EXCEPT ![i].w = t]
    /\ wk' = [wk EXCEPT ![t].pc = "recheck"]
    /\ UNCHANGED <<ushards, urecs, tally, notStats>>

\* a second look that never finds the record
Exists_Never(m, userID) == FALSE

\* the map look-up of the second look
Exists(m, userID) == userID \in DOMAIN m

\* getOrCreate lines 271-273: the second look, under the write lock
GocRecheck(t) ==
    LET i == statsShard(ushards, wk[t].userID) IN
    /\ wk[t].pc = "recheck"
    /\ wk' = IF Exists(ushards[i], wk[t].userID)
             THEN [wk EXCEPT ![t].pc = "unlock", ![t].stats = ushards[i][wk[t].userID]]
             ELSE [wk EXCEPT ![t].pc = "create"]
    /\ UNCHANGED <<ushards, urecs, umu, tally, notStats>>

\* getOrCreate lines 275-276: a new UserStats, stored under the user id
GocCreate(t) ==
    LET i == statsShard(ushards, wk[t].userID)
        a == Fresh(urecs) IN
    /\ wk[t].pc = "create"
    /\ urecs' = urecs @@ (a :> Counters0)
    /\ ushards' = [ushards EXCEPT ![i] =
                       [k \in DOMAIN @ \cup {wk[t].userID} |->
                           IF k = wk[t].userID THEN a ELSE @[k]]]
    /\ wk' = [wk EXCEPT ![t].pc = "unlock", ![t].stats = a]
    /\ UNCHANGED <<umu, tally, notStats>>

\* the deferred shard.mu.Unlock() and getOrCreate's return
GocUnlock(t) ==
    /\ wk[t].pc = "unlock"
    /\ umu' = [umu EXCEPT ![statsShard(ushards, wk[t].userID)].w = 0]
    /\ wk' = [wk EXCEPT ![t].pc = "add"]
    /\ UNCHANGED <<ushards, urecs, tally, notStats>>

\* RecordWin / RecordLoss / RecordDraw: atomic.AddInt32 on the record held, and the return
AtomicAdd(t) ==
    /\ wk[t].pc = "add"
    /\ urecs' = [urecs EXCEPT ![wk[t].stats] =
                     CASE wk[t].op = "RecordWin" -> [@ EXCEPT !.Wins = AddInt32(@)]
                       [] wk[t].op = "RecordLoss" -> [@ EXCEPT !.Losses = AddInt32(@)]
                       [] wk[t].op = "RecordDraw" -> [@ EXCEPT !.Draws = AddInt32(@)]]
    /\ tally' = [tally EXCEPT ![wk[t].userID] =
                     CASE wk[t].op = "RecordWin" -> [@ EXCEPT !.Wins = @ + 1]
                       [] wk[t].op = "RecordLoss" -> [@ EXCEPT !.Losses = @ + 1]
                       [] wk[t].op = "RecordDraw" -> [@ EXCEPT !.Draws = @ + 1]]
    /\ wk' = [wk EXCEPT ![t] = IdleWk]
    /\ UNCHANGED <<ushards, umu, notStats>>

TotalGames(s) == s.Wins + s.Losses + s.Draws

\* StatsStore.Get called once no other call is in flight: getOrCreate, then the three loads
GetAfter(userID) ==
    LET i == statsShard(ushards, userID)
        a == IF userID \in DOMAIN ushards[i] THEN ushards[i][userID] ELSE Fresh(urecs)
        recs == IF userID \in DOMAIN ushards[i] THEN urecs ELSE urecs @@ (a :> Counters0) IN
    /\ \A t \in Workers : wk[t].pc = "idle"
    /\ urecs' = recs
    /\ ushards' = [ushards EXCEPT ![i] =
                       [k \in DOMAIN @ \cup {userID} |-> IF k = userID THEN a ELSE @[k]]]
    /\ lastU' = [op |-> "Get", UserID |-> userID, Wins |-> recs[a].Wins,
                 Losses |-> recs[a].Losses, Draws |-> recs[a].Draws,
                 total |-> TotalGames(recs[a])]
    /\ UNCHANGED <<umu, wk, tally, gameVars, boardVars, lockVars, srvVars, cloneVars, regVars, readVars, fanVars, ordVars>>

NextStats ==
    \/ \E t \in Workers : \E u \in StatUsers :
          \E op \in {"RecordWin", "RecordLoss", "RecordDraw"} : GocRead(t, op, u)
    \/ \E t \in Workers : GocLock(t)
    \/ \E t \in Workers : GocRecheck(t)
    \/ \E t \in Workers : GocCreate(t)
    \/ \E t \in Workers : GocUnlock(t)
    \/ \E t \in Workers : AtomicAdd(t)
    \/ \E u \in StatUsers : GetAfter(u)

SpecStats == InitStats /\ [][NextStats]_vars

----------------------------------------------------------------------------
(* StatsStore.Get load by load, next to RecordWin, RecordLoss and RecordDraw
   calls on the same store.  A Record call touches the shared store at
   getOrCreate and at its one atomic add; here it is one step.  Get is
   getOrCreate and then three separate atomic loads, one step each. *)

IdleRd == [pc |-> "idle", userID |-> "", stats |-> 0, Wins |-> 0, Losses |-> 0, held |-> {}]

notRead == <<umu, wk, gameVars, boardVars, lockVars, srvVars, cloneVars, regVars, fanVars, ordVars>>

InitGet ==
    /\ ushards = NewStatsStore(NumShards)
    /\ urecs = <<>>
    /\ umu = [i \in DOMAIN ushards |-> [w |-> 0, r |-> 0]]
    /\ wk = [t \in Workers |-> IdleWk]
    /\ tally = [u \in StatUsers |-> Counters0]
    /\ lastU = [op |-> "NewStatsStore"]
    /\ rd = IdleRd
    /\ game = NoGame
    /\ clock = 0
    /\ last = NoCall
    /\ board = NoBoard
    /\ lastB = NoCallB
    /\ NoOrder
    /\ NoFanout
    /\ NoClone
    /\ NoRegistry
    /\ NoLocking
    /\ NoServer

\* getOrCreate as a whole: the record of userID, made first when there is none
RecordAt(userID) ==
    LET i == statsShard(ushards, userID)
        a == IF userID \in DOMAIN ushards[i] THEN ushards[i][userID] ELSE Fresh(urecs)
    IN [stats |-> a,
        recs |-> IF userID \in DOMAIN ushards[i] THEN urecs ELSE urecs @@ (a :> Counters0),
        shards |-> [ushards EXCEPT ![i] =
                       [k \in DOMAIN @ \cup {userID} |-> IF k = userID THEN a ELSE @[k]]]]

\* RecordWin / RecordLoss / RecordDraw: getOrCreate, then atomic.AddInt32 on one counter
RecordCall(op, userID) ==
    LET at == RecordAt(userID)
        recs == [at.recs EXCEPT ![at.stats] =
                    CASE op = "RecordWin" -> [@ EXCEPT !.Wins = AddInt32(@)]
                      [] op = "RecordLoss" -> [@ EXCEPT !.Losses = AddInt32(@)]
                      [] op = "RecordDraw" -> [@ EXCEPT !.Draws = AddInt32(@)]] IN
    /\ CallsStarted < MaxCalls
    /\ urecs' = recs
    /\ ushards' = at.shards
    /\ tally' = [tally EXCEPT ![userID] =
                     CASE op = "RecordWin" -> [@ EXCEPT !.Wins = @ + 1]
                       [] op = "RecordLoss" -> [@ EXCEPT !.Losses = @ + 1]
                       [] op = "RecordDraw" -> [@ EXCEPT !.Draws = @ + 1]]
    /\ rd' = IF rd.pc # "idle" /\ rd.stats = at.stats
             THEN [rd EXCEPT !.held = @ \cup {recs[at.stats]}]
             ELSE rd
    /\ UNCHANGED <<lastU, notRead>>

\* Get line 282: stats := s.getOrCreate(userID)
GetRecord(userID) ==
    LET at == RecordAt(userID) IN
    /\ rd.pc = "idle"
    /\ urecs' = at.recs
    /\ ushards' = at.shards
    /\ rd' = [pc |-> "wins", userID |-> userID, stats |-> at.stats, Wins |-> 0, Losses |-> 0,
              held |-> {at.recs[at.stats]}]
    /\ UNCHANGED <<tally, lastU, notRead>>

\* Get line 285: atomic.LoadInt32(&stats.Wins)
GetLoadWins ==
    /\ rd.pc = "wins"
    /\ rd' = [rd EXCEPT !.pc = "losses", !.Wins = urecs[rd.stats].Wins]
    /\ UNCHANGED <<ushards, urecs, tally, lastU, notRead>>

\* Get line 286: atomic.LoadInt32(&stats.Losses)
GetLoadLosses ==
    /\ rd.pc = "losses"
    /\ rd' = [rd EXCEPT !.pc = "draws", !.Losses = urecs[rd.stats].Losses]
    /\ UNCHANGED <<ushards, urecs, tally, lastU, notRead>>

\* Get lines 283-288: atomic.LoadInt32(&stats.Draws) and the return of the copy
GetLoadDraws ==
    /\ rd.pc = "draws"
    /\ lastU' = [op |-> "Get", UserID |-> rd.userID, Wins |-> rd.Wins, Losses |-> rd.Losses,
                 Draws |-> urecs[rd.stats].Draws, held |-> rd.held]
    /\ rd' = IdleRd
    /\ UNCHANGED <<ushards, urecs, tally, notRead>>

NextGet ==
    \/ \E u \in StatUsers :
          \E op \in {"RecordWin", "RecordLoss", "RecordDraw"} : RecordCall(op, u)
    \/ \E u \in StatUsers : GetRecord(u)
    \/ GetLoadWins
    \/ GetLoadLosses
    \/ GetLoadDraws

SpecGet == InitGet /\ [][NextGet]_vars

----------------------------------------------------------------------------
(* StatsStore.RecordGameResult called with every pair of ids, the empty id
   included, and either value of isDraw *)

\* the counters a store may hold in all before a further call is made
MaxRecorded == 3

\* the ids passed as winnerID and loserID
ResultIDs == UserIDs \cup {""}

Recorded(st) ==
    Cardinality({p \in (DOMAIN st) \X (1..(MaxRecorded + 2)) : TotalGames(st[p[1]]) >= p[2]})

notResult == <<req, ushards, urecs, umu, wk, tally, gameVars, boardVars, lockVars, cloneVars, regVars, readVars, fanVars, ordVars>>

InitResult ==
    /\ stats = <<>>
    /\ req = <<>>
    /\ lastU = [op |-> "NewStatsStore"]
    /\ ushards = <<>>
    /\ urecs = <<>>
    /\ umu = <<>>
    /\ wk = <<>>
    /\ tally = <<>>
    /\ game = NoGame
    /\ clock = 0
    /\ last = NoCall
    /\ board = NoBoard
    /\ lastB = NoCallB
    /\ NoOrder
    /\ NoFanout
    /\ NoReader
    /\ NoClone
    /\ NoRegistry
    /\ NoLocking

ResultCall(winnerID, loserID, isDraw) ==
    /\ Recorded(stats) < MaxRecorded
    /\ stats' = RecordGameResult(stats, winnerID, loserID, isDraw)
    /\ lastU' = [op |-> "RecordGameResult", winnerID |-> winnerID, loserID |-> loserID,
                 isDraw |-> isDraw]
    /\ UNCHANGED notResult

NextResult ==
    \E winnerID \in ResultIDs : \E loserID \in ResultIDs : \E isDraw \in BOOLEAN :
        ResultCall(winnerID, loserID, isDraw)

SpecResult == InitResult /\ [][NextResult]_vars

----------------------------------------------------------------------------
(* NewGame, and through it NewBoard, called with every size and win length
   from below the smallest board up to MaxSize *)

\* the largest board size passed to NewGame
MaxSize == 8

Sizes == (-1)..MaxSize
WinLengths == (-1)..(MaxSize + 1)

notNew == <<clock, lastB, lockVars, srvVars, cloneVars, regVars, statVars, readVars, fanVars, ordVars>>

InitNew ==
    /\ game = NoGame
    /\ clock = 1
    /\ last = NoCall
    /\ board = NoBoard
    /\ lastB = NoCallB
    /\ NoOrder
    /\ NoFanout
    /\ NoReader
    /\ NoStats
    /\ NoRegistry
    /\ NoClone
    /\ NoLocking
    /\ NoServer

\* game.NewGame(id, creatorID, boardSize, winLength); a nil *Game or *Board is NoGame, NoBoard
CallNewGame(boardSize, winLength) ==
    LET nb == NewBoard(boardSize, winLength)
        ng == NewGame("g1", Creator, boardSize, winLength, clock) IN
    /\ board' = IF nb.err = Nil THEN nb.board ELSE NoBoard
    /\ game' = IF ng.err = Nil THEN ng.game ELSE NoGame
    /\ last' = [op |-> "NewGame", size |-> boardSize, winLength |-> winLength, err |-> ng.err]
    /\ UNCHANGED notNew

NextNew == \E boardSize \in Sizes : \E winLength \in WinLengths : CallNewGame(boardSize, winLength)

SpecNew == InitNew /\ [][NextNew]_vars

----------------------------------------------------------------------------
(* The update fan-out of TicTacToeServer: StreamGameUpdates handlers that
   subscribe a channel, read it and unsubscribe, next to JoinGame and
   MakeMove handlers that broadcast.  subscribe and unsubscribe run wholly
   under subscribersMu.Lock, so each is one step; broadcastUpdate holds the
   read lock over its loop and makes one non-blocking send per step.  Every
   call reads the same time. *)

\* the capacity of an update channel (the code makes them with 10)
ChanCap == 2

\* the streams opened
Observers == {1, 2}

\* the publishing handlers
Publishers == {1}

\* match ids a request may carry: the stored ones, an unknown one, none
FanIDs == {"g1", "g2", "g0", ""}

\* a game played from NewGame and Join through the moves given
RECURSIVE Played(_, _, _)
Played(g, moves, now) ==
    IF moves = <<>> THEN g
    ELSE Played(GameMakeMove(g, Head(moves)[1], Head(moves)[2], Head(moves)[3], now + 1).game,
                Tail(moves), now + 1)

\* g1 has six marks (X O X / O X O / . . .); g2 waits for its second player and is
\* joined, not played
FanStart ==
    LET g1 == GameJoin(NewGame("g1", Creator, DefaultBoardSize, DefaultWinLength, 1).game,
                       "bob", 2).game
    IN ("g1" :> Played(g1, << <<"alice", 0, 0>>, <<"bob", 0, 1>>, <<"alice", 0, 2>>,
                              <<"bob", 1, 0>>, <<"alice", 1, 1>>, <<"bob", 1, 2>> >>, 2))
       @@ ("g2" :> NewGame("g2", Creator, DefaultBoardSize, DefaultWinLength, 1).game)

NoUpdate == [Game |-> NoGame]

\* a handler's locals; left, sent and dropped are history: the game as the handler's own
\* Join or MakeMove left it, and the channels its broadcast has filled and skipped
IdlePub == [pc |-> "idle", op |-> "none", gameID |-> "", left |-> NoGame, update |-> NoUpdate,
            todo |-> {}, sent |-> {}, dropped |-> {}]

IdleObs == [pc |-> "idle", gameID |-> "", why |-> ""]

\* make(chan *pb.GameUpdate, 10)
MakeChan == [buf |-> <<>>, closed |-> FALSE]

notFanout == <<game, last, boardVars, lockVars, cloneVars, regVars, statVars, readVars, ordVars>>

InitFanout ==
    /\ games = FanStart
    /\ subs = <<>>
    /\ chans = [o \in Observers |-> MakeChan]
    /\ submu = [w |-> 0, r |-> 0]
    /\ pub = [p \in Publishers |-> IdlePub]
    /\ obs = [o \in Observers |-> IdleObs]
    /\ panicked = FALSE
    /\ stats = <<>>
    /\ req = <<>>
    /\ clock = 8
    /\ game = NoGame
    /\ last = NoCall
    /\ board = NoBoard
    /\ lastB = NoCallB
    /\ NoOrder
    /\ NoReader
    /\ NoStats
    /\ NoRegistry
    /\ NoClone
    /\ NoLocking

\* a Lock that excludes no one
CanLockSubs_Always(m) == TRUE

\* subscribersMu.Lock() can be taken
CanLockSubs(m) == m.w = 0 /\ m.r = 0

\* subscribersMu.RLock() can be taken
CanRLockSubs(m) == m.w = 0

\* server.isGameFinished
isGameFinished(status) ==
    status = StatusXWon \/ status = StatusOWon \/ status = StatusDraw

\* subscribe lines 385-388
Subscribe(s, gameID, ch) ==
    [k \in DOMAIN s \cup {gameID} |->
        IF k = gameID THEN (IF gameID \in DOMAIN s THEN s[gameID] ELSE {}) \cup {ch} ELSE s[k]]

\* unsubscribe lines 396-401
Unsubscribe(s, gameID, ch) ==
    IF gameID \in DOMAIN s
    THEN IF s[gameID] \ {ch} = {}
         THEN [k \in DOMAIN s \ {gameID} |-> s[k]]
         ELSE [s EXCEPT ![gameID] = @ \ {ch}]
    ELSE s

\* a range over the channels of every match
Registered_All(s, gameID) == UNION {s[k] : k \in DOMAIN s}

\* broadcastUpdate line 410: the channels ranged over
Registered(s, gameID) == IF gameID \in DOMAIN s THEN s[gameID] ELSE {}

\* a plain send, which waits for room
SendReady_Blocking(c) == Len(c.buf) < ChanCap

\* select { case ch <- update: default: } is never blocked
SendReady(c) == TRUE

\* the send of the select: taken when the buffer has room, else the default case
TrySend(c, update) ==
    IF Len(c.buf) < ChanCap THEN [c EXCEPT !.buf = Append(@, update)] ELSE c

\* an unsubscribe called only after a finished update, not deferred
ExitTo_NoDefer(why) == IF why = "finished" THEN "defer" ELSE "done"

\* where StreamGameUpdates goes when it returns after subscribing: the deferred unsubscribe
ExitTo(why) == "defer"

\* StreamGameUpdates lines 337-350: the request is checked, the game fetched, the channel made
StreamOpen(o, gameID) ==
    /\ obs[o].pc = "idle"
    /\ obs' = [obs EXCEPT ![o] =
                  IF gameID = "" THEN [pc |-> "done", gameID |-> gameID, why |-> "InvalidArgument"]
                  ELSE IF gameID \notin DOMAIN games
                  THEN [pc |-> "done", gameID |-> gameID, why |-> "NotFound"]
                  ELSE [pc |-> "subscribe", gameID |-> gameID, why |-> ""]]
    /\ UNCHANGED <<games, subs, chans, submu, pub, panicked, clock, stats, req, notFanout>>

\* StreamGameUpdates line 350 and subscribe
StreamSubscribe(o) ==
    /\ obs[o].pc = "subscribe"
    /\ CanLockSubs(submu)
    /\ subs' = Subscribe(subs, obs[o].gameID, o)
    /\ obs' = [obs EXCEPT ![o].pc = "hello"]
    /\ UNCHANGED <<games, chans, submu, pub, panicked, clock, stats, req, notFanout>>

\* StreamGameUpdates lines 354-359: the current state is sent; Send may fail
StreamHello(o, ok) ==
    /\ obs[o].pc = "hello"
    /\ obs' = [obs EXCEPT ![o] = IF ok THEN [@ EXCEPT !.pc = "loop"]
                                 ELSE [@ EXCEPT !.pc = ExitTo("send-initial"),
                                                !.why = "send-initial"]]
    /\ UNCHANGED <<games, subs, chans, submu, pub, panicked, clock, stats, req, notFanout>>

\* StreamGameUpdates lines 364-371: an update is received and forwarded; Send may fail
StreamRecv(o, ok) ==
    LET update == Head(chans[o].buf)
        why == IF ~ok THEN "send-update"
               ELSE IF update.Game # NoGame /\ isGameFinished(update.Game.Status)
               THEN "finished" ELSE "" IN
    /\ obs[o].pc = "loop"
    /\ chans[o].buf # <<>>
    /\ chans' = [chans EXCEPT ![o].buf = Tail(@)]
    /\ obs' = [obs EXCEPT ![o] = IF why = "" THEN @
                                 ELSE [@ EXCEPT !.pc = ExitTo(why), !.why = why]]
    /\ UNCHANGED <<games, subs, submu, pub, panicked, clock, stats, req, notFanout>>

\* StreamGameUpdates lines 373-374: the stream's context is done
StreamCancel(o) ==
    /\ obs[o].pc = "loop"
    /\ obs' = [obs EXCEPT ![o].pc = ExitTo("cancelled"), ![o].why = "cancelled"]
    /\ UNCHANGED <<games, subs, chans, submu, pub, panicked, clock, stats, req, notFanout>>

\* the deferred unsubscribe (line 351, 392-403) and the return
StreamUnsubscribe(o) ==
    /\ obs[o].pc = "defer"
    /\ CanLockSubs(submu)
    /\ subs' = Unsubscribe(subs, obs[o].gameID, o)
    /\ chans' = [chans EXCEPT ![o].closed = TRUE]
    /\ obs' = [obs EXCEPT ![o].pc = "done"]
    /\ UNCHANGED <<games, submu, pub, panicked, clock, stats, req, notFanout>>

\* what JoinGame and MakeMove check before they reach the game
FanRequestError(gameID, userID) ==
    IF userID = "" THEN "InvalidArgument"
    ELSE IF gameID = "" THEN "InvalidArgument"
    ELSE IF gameID \notin DOMAIN games THEN "NotFound"
    ELSE Nil

\* JoinGame lines 112-137
PubJoinGame(p, gameID, userID) ==
    /\ pub[p].pc = "idle"
    /\ IF FanRequestError(gameID, userID) # Nil
       THEN UNCHANGED <<games, pub>>
       ELSE LET res == GameJoin(games[gameID], userID, clock) IN
            IF res.err # Nil
            THEN UNCHANGED <<games, pub>>
            ELSE /\ games' = [games EXCEPT ![gameID] = res.game]
                 /\ pub' = [pub EXCEPT ![p].pc = "snapshot", ![p].op = "JoinGame",
                                       ![p].gameID = gameID,
                                       ![p].left = GetSnapshot(res.game)]
    /\ UNCHANGED <<subs, chans, submu, obs, panicked, clock, stats, req, notFanout>>

\* MakeMove lines 153-184
PubMakeMove(p, gameID, userID, row, col) ==
    /\ pub[p].pc = "idle"
    /\ IF FanRequestError(gameID, userID) # Nil
       THEN UNCHANGED <<games, pub>>
       ELSE LET res == GameMakeMove(games[gameID], userID, row, col, clock) IN
            IF res.err # Nil
            THEN UNCHANGED <<games, pub>>
            ELSE /\ games' = [games EXCEPT ![gameID] = res.game]
                 /\ pub' = [pub EXCEPT ![p].pc = "snapshot", ![p].op = "MakeMove",
                                       ![p].gameID = gameID,
                                       ![p].left = GetSnapshot(res.game)]
    /\ UNCHANGED <<subs, chans, submu, obs, panicked, clock, stats, req, notFanout>>

\* JoinGame line 139; MakeMove lines 186-191: the snapshot, and the result recorded when finished
PubSnapshot(p) ==
    LET snapshot == GetSnapshot(games[pub[p].gameID]) IN
    /\ pub[p].pc = "snapshot"
    /\ stats' = IF pub[p].op = "MakeMove" /\ IsFinished(snapshot.Status)
                THEN recordGameResult(stats, snapshot) ELSE stats
    /\ pub' = [pub EXCEPT ![p].pc = "rlock", ![p].update = [Game |-> snapshot]]
    /\ UNCHANGED <<games, subs, chans, submu, obs, panicked, clock, req, notFanout>>

\* broadcastUpdate lines 407-410: the read lock, and the set ranged over
BcRLock(p) ==
    /\ pub[p].pc = "rlock"
    /\ CanRLockSubs(submu)
    /\ submu' = [submu EXCEPT !.r = @ + 1]
    /\ pub' = [pub EXCEPT ![p].pc = "range", ![p].todo = Registered(subs, pub[p].gameID)]
    /\ UNCHANGED <<games, subs, chans, obs, panicked, clock, stats, req, notFanout>>

\* broadcastUpdate lines 410-416: one turn of the loop, in the order the map gives
BcSend(p, ch) ==
    /\ pub[p].pc = "range"
    /\ ch \in pub[p].todo
    /\ SendReady(chans[ch])
    /\ chans' = [chans EXCEPT ![ch] = TrySend(@, pub[p].update)]
    /\ panicked' = (panicked \/ chans[ch].closed)
    /\ pub' = [pub EXCEPT ![p].todo = @ \ {ch},
                          ![p].sent = IF Len(chans[ch].buf) < ChanCap THEN @ \cup {ch} ELSE @,
                          ![p].dropped = IF Len(chans[ch].buf) < ChanCap THEN @ ELSE @ \cup {ch}]
    /\ UNCHANGED <<games, subs, submu, obs, clock, stats, req, notFanout>>

\* the deferred RUnlock (line 408), and the handler's return (lines 147-149, 199-201)
BcRUnlock(p) ==
    /\ pub[p].pc = "range"
    /\ pub[p].todo = {}
    /\ submu' = [submu EXCEPT !.r = @ - 1]
    /\ pub' = [pub EXCEPT ![p] = IdlePub]
    /\ UNCHANGED <<games, subs, chans, obs, panicked, clock, stats, req, notFanout>>

NextFanout ==
    \/ \E o \in Observers : \E id \in FanIDs : StreamOpen(o, id)
    \/ \E o \in Observers : StreamSubscribe(o)
    \/ \E o \in Observers : \E ok \in BOOLEAN : StreamHello(o, ok)
    \/ \E o \in Observers : \E ok \in BOOLEAN : StreamRecv(o, ok)
    \/ \E o \in Observers : StreamCancel(o)
    \/ \E o \in Observers : StreamUnsubscribe(o)
    \/ \E p \in Publishers : \E id \in FanIDs : \E u \in {"alice", "bob", ""} :
          PubJoinGame(p, id, u)
    \/ \E p \in Publishers : \E id \in FanIDs \ {"g2"} : \E u \in {"alice", "bob", ""} :
          \E r \in 0..(DefaultBoardSize - 1) : \E c \in 0..(DefaultBoardSize - 1) :
              PubMakeMove(p, id, u, r, c)
    \/ \E p \in Publishers : PubSnapshot(p)
    \/ \E p \in Publishers : BcRLock(p)
    \/ \E p \in Publishers : \E ch \in Observers : BcSend(p, ch)
    \/ \E p \in Publishers : BcRUnlock(p)

SpecFanout == InitFanout /\ [][NextFanout]_vars

\* a handler that is running keeps running: the steps of JoinGame and MakeMove, broadcast
\* included, and the lock-holding steps of the streams are taken when they stay enabled;
\* nothing makes a stream's client read, so its receives and its cancellation are not
FairPublish ==
    /\ \A p \in Publishers :
          WF_vars(PubSnapshot(p) \/ BcRLock(p) \/ BcRUnlock(p) \/ \E ch \in Observers : BcSend(p, ch))
    /\ \A o \in Observers : WF_vars(StreamSubscribe(o) \/ StreamUnsubscribe(o))

SpecFanoutFair == SpecFanout /\ FairPublish

\* the streams too keep running, and their clients read: every Send succeeds in the end
FairStream ==
    \A o \in Observers : WF_vars(StreamHello(o, TRUE)) /\ WF_vars(StreamRecv(o, TRUE))

SpecStreamFair == SpecFanout /\ FairPublish /\ FairStream

----------------------------------------------------------------------------
(* The same handlers with two requests in flight at once and one stream *)

\* the handlers serving JoinGame / MakeMove at the same time
Movers == {1, 2}

\* the stream
Watchers == {1}

InitPublish ==
    /\ games = FanStart
    /\ subs = <<>>
    /\ chans = [o \in Watchers |-> MakeChan]
    /\ submu = [w |-> 0, r |-> 0]
    /\ pub = [p \in Movers |-> IdlePub]
    /\ obs = [o \in Watchers |-> IdleObs]
    /\ panicked = FALSE
    /\ stats = <<>>
    /\ req = <<>>
    /\ clock = 8
    /\ game = NoGame
    /\ last = NoCall
    /\ board = NoBoard
    /\ lastB = NoCallB
    /\ NoOrder
    /\ NoReader
    /\ NoStats
    /\ NoRegistry
    /\ NoClone
    /\ NoLocking

NextPublish ==
    \/ \E o \in Watchers : \E id \in FanIDs : StreamOpen(o, id)
    \/ \E o \in Watchers : StreamSubscribe(o)
    \/ \E o \in Watchers : \E ok \in BOOLEAN : StreamHello(o, ok)
    \/ \E o \in Watchers : \E ok \in BOOLEAN : StreamRecv(o, ok)
    \/ \E o \in Watchers : StreamCancel(o)
    \/ \E o \in Watchers : StreamUnsubscribe(o)
    \/ \E p \in Movers : \E id \in FanIDs : \E u \in {"alice", "bob", ""} :
          PubJoinGame(p, id, u)
    \/ \E p \in Movers : \E id \in FanIDs \ {"g2"} : \E u \in {"alice", "bob", ""} :
          \E r \in 0..(DefaultBoardSize - 1) : \E c \in 0..(DefaultBoardSize - 1) :
              PubMakeMove(p, id, u, r, c)
    \/ \E p \in Movers : PubSnapshot(p)
    \/ \E p \in Movers : BcRLock(p)
    \/ \E p \in Movers : \E ch \in Watchers : BcSend(p, ch)
    \/ \E p \in Movers : BcRUnlock(p)

SpecPublish == InitPublish /\ [][NextPublish]_vars

----------------------------------------------------------------------------
(* One game from its creation: JoinGame and MakeMove handlers in flight together,
   one stream *)

\* the one game, as CreateGame left it
RecordStart == "g1" :> NewGame("g1", Creator, DefaultBoardSize, DefaultWinLength, 1).game

\* the cells the requests name: the top row and two cells of the middle row
RecordCells == {<<0, 0>>, <<0, 1>>, <<0, 2>>, <<1, 0>>, <<1, 1>>}

\* the handler serving the JoinGame requests, and the one serving the MakeMove requests
JoinHandlers == {1}
MoveHandlers == {2}

InitRecord ==
    /\ games = RecordStart
    /\ subs = <<>>
    /\ chans = [o \in Watchers |-> MakeChan]
    /\ submu = [w |-> 0, r |-> 0]
    /\ pub = [p \in Movers |-> IdlePub]
    /\ obs = [o \in Watchers |-> IdleObs]
    /\ panicked = FALSE
    /\ stats = <<>>
    /\ req = <<>>
    /\ clock = 8
    /\ game = NoGame
    /\ last = NoCall
    /\ board = NoBoard
    /\ lastB = NoCallB
    /\ NoOrder
    /\ NoReader
    /\ NoStats
    /\ NoRegistry
    /\ NoClone
    /\ NoLocking

NextRecord ==
    \/ \E o \in Watchers : StreamOpen(o, "g1")
    \/ \E o \in Watchers : StreamSubscribe(o)
    \/ \E o \in Watchers : StreamHello(o, TRUE)
    \/ \E o \in Watchers : StreamRecv(o, TRUE)
    \/ \E o \in Watchers : StreamUnsubscribe(o)
    \/ \E p \in JoinHandlers : \E u \in {"alice", "bob"} : PubJoinGame(p, "g1", u)
    \/ \E p \in MoveHandlers : \E u \in {"alice", "bob"} : \E c \in RecordCells :
          PubMakeMove(p, "g1", u, c[1], c[2])
    \/ \E p \in Movers : PubSnapshot(p)
    \/ \E p \in Movers : BcRLock(p)
    \/ \E p \in Movers : \E ch \in Watchers : BcSend(p, ch)
    \/ \E p \in Movers : BcRUnlock(p)

SpecRecord == InitRecord /\ [][NextRecord]_vars

----------------------------------------------------------------------------
(* subscribe and unsubscribe called directly, one call at a time, in any order *)

\* the match ids the calls name
SubIDs == {"g1", "g2"}

\* the channels the calls pass
SubChans == {1, 2}

notSubs == <<game, clock, boardVars, lockVars, srvVars, cloneVars, regVars, statVars, readVars,
             games, submu, pub, obs, ordVars>>

InitSubs ==
    /\ games = <<>>
    /\ subs = <<>>
    /\ chans = [c \in SubChans |-> MakeChan]
    /\ submu = [w |-> 0, r |-> 0]
    /\ pub = <<>>
    /\ obs = <<>>
    /\ panicked = FALSE
    /\ stats = <<>>
    /\ req = <<>>
    /\ clock = 0
    /\ game = NoGame
    /\ last = NoCall
    /\ board = NoBoard
    /\ lastB = NoCallB
    /\ NoOrder
    /\ NoReader
    /\ NoStats
    /\ NoRegistry
    /\ NoClone
    /\ NoLocking

\* subscribe lines 381-389, from Lock to the deferred Unlock
CallSubscribe(gameID, ch) ==
    /\ ~panicked
    /\ CanLockSubs(submu)
    /\ subs' = Subscribe(subs, gameID, ch)
    /\ last' = [op |-> "subscribe", gameID |-> gameID, ch |-> ch]
    /\ UNCHANGED <<chans, panicked, notSubs>>

\* unsubscribe lines 392-403, from Lock to the deferred Unlock: close(ch) on a closed
\* channel panics
CallUnsubscribe(gameID, ch) ==
    /\ ~panicked
    /\ CanLockSubs(submu)
    /\ subs' = Unsubscribe(subs, gameID, ch)
    /\ chans' = [chans EXCEPT ![ch].closed = TRUE]
    /\ panicked' = chans[ch].closed
    /\ last' = [op |-> "unsubscribe", gameID |-> gameID, ch |-> ch]
    /\ UNCHANGED notSubs

NextSubs ==
    \/ \E gameID \in SubIDs : \E ch \in SubChans : CallSubscribe(gameID, ch)
    \/ \E gameID \in SubIDs : \E ch \in SubChans : CallUnsubscribe(gameID, ch)

SpecSubs == InitSubs /\ [][NextSubs]_vars

----------------------------------------------------------------------------
(* JoinGame and MakeMove requests served one at a time, refused ones included,
   with observers registered by subscribe *)

\* JoinGame lines 128-137: the status code for the error of Game.Join
JoinCode(err) ==
    CASE err = Nil -> "OK"
      [] err = ErrGameAlreadyStarted -> "FailedPrecondition"
      [] err = ErrCannotJoinOwnGame -> "InvalidArgument"
      [] OTHER -> "Internal"

\* MakeMove lines 169-184: the status code for the error of Game.MakeMove
MoveCode(err) ==
    CASE err = Nil -> "OK"
      [] err = ErrGameNotInProgress -> "FailedPrecondition"
      [] err = ErrPlayerNotInGame -> "PermissionDenied"
      [] err = ErrNotYourTurn -> "FailedPrecondition"
      [] err = ErrInvalidPosition -> "InvalidArgument"
      [] err = ErrCellOccupied -> "InvalidArgument"
      [] OTHER -> "Internal"

\* a handler that goes on after the game refused the call
Refused_BeforeGameOnly(pre, err) == pre # Nil

\* the handler returns the error: the request's own checks or the store's (pre), or the
\* game's (err)
Refused(pre, err) == pre # Nil \/ err # Nil

\* broadcastUpdate, from RLock to RUnlock: one non-blocking send per registered channel
Broadcast(cs, s, gameID, update) ==
    [ch \in DOMAIN cs |->
        IF ch \in Registered(s, gameID) THEN TrySend(cs[ch], update) ELSE cs[ch]]

\* the requests: every player and a stranger on every cell of g1 and one cell off the
\* board, the first cell of g2, an unknown match id, and empty strings
RejectJoins ==
    ({"g1", "g2"} \X {"alice", "bob", "carol"})
      \cup {<<"g0", "bob">>, <<"", "bob">>, <<"g1", "">>}
RejectMoves ==
    {<<"g1", u, r, c>> : u \in {"alice", "bob", "carol"}, r \in 0..DefaultBoardSize,
                          c \in 0..(DefaultBoardSize - 1)}
      \cup {<<"g2", u, 0, 0>> : u \in {"alice", "bob", "carol"}}
      \cup {<<"g0", "alice", 0, 0>>, <<"", "alice", 0, 0>>, <<"g1", "", 0, 0>>}

notReject == <<game, clock, req, boardVars, lockVars, cloneVars, regVars, statVars, readVars,
               submu, pub, obs, panicked, ordVars>>

\* JoinGame lines 112-150
ReqJoinGame(gameID, userID) ==
    LET pre == FanRequestError(gameID, userID)
        res == IF pre = Nil THEN GameJoin(games[gameID], userID, clock)
               ELSE [err |-> Nil, game |-> NoGame]
    IN /\ last' = [op |-> "JoinGame", code |-> IF pre # Nil THEN pre ELSE JoinCode(res.err)]
       /\ IF Refused(pre, res.err)
          THEN UNCHANGED <<games, chans>>
          ELSE /\ games' = [games EXCEPT ![gameID] = res.game]
               /\ chans' = Broadcast(chans, subs, gameID, [Game |-> GetSnapshot(res.game)])
       /\ UNCHANGED <<stats, subs, notReject>>

\* MakeMove lines 153-202
ReqMakeMove(gameID, userID, row, col) ==
    LET pre == FanRequestError(gameID, userID)
        res == IF pre = Nil THEN GameMakeMove(games[gameID], userID, row, col, clock)
               ELSE [err |-> Nil, game |-> NoGame]
        snapshot == GetSnapshot(res.game)
    IN /\ last' = [op |-> "MakeMove", code |-> IF pre # Nil THEN pre ELSE MoveCode(res.err)]
       /\ IF Refused(pre, res.err)
          THEN UNCHANGED <<games, chans, stats>>
          ELSE /\ games' = [games EXCEPT ![gameID] = res.game]
               /\ stats' = IF IsFinished(snapshot.Status)
                           THEN recordGameResult(stats, snapshot) ELSE stats
               /\ chans' = Broadcast(chans, subs, gameID, [Game |-> snapshot])
       /\ UNCHANGED <<subs, notReject>>

InitReject ==
    /\ games = FanStart
    /\ subs = <<>>
    /\ chans = [c \in SubChans |-> MakeChan]
    /\ submu = [w |-> 0, r |-> 0]
    /\ pub = <<>>
    /\ obs = <<>>
    /\ panicked = FALSE
    /\ stats = <<>>
    /\ req = <<>>
    /\ clock = 8
    /\ game = NoGame
    /\ last = NoCall
    /\ board = NoBoard
    /\ lastB = NoCallB
    /\ NoOrder
    /\ NoReader
    /\ NoStats
    /\ NoRegistry
    /\ NoClone
    /\ NoLocking

NextReject ==
    \/ \E gameID \in SubIDs : \E ch \in SubChans : CallSubscribe(gameID, ch)
    \/ \E r \in RejectJoins : ReqJoinGame(r[1], r[2])
    \/ \E r \in RejectMoves : ReqMakeMove(r[1], r[2], r[3], r[4])

SpecReject == InitReject /\ [][NextReject]_vars

----------------------------------------------------------------------------
(* The locks of the core: every call reduced to the lock operations it makes,
   in the order it makes them, run by goroutines that interleave freely.  One
   store shard, one match, one stats shard and the observer map stand for all
   of them: calls on different shards or matches share no mutex. *)

Mutexes == {"shard.mu", "g.mu", "statsShard.mu", "subscribersMu"}

\* Create, Delete (game_store.go 60-61, 88-89)
WriteShard == << <<"Lock", "shard.mu">>, <<"Unlock", "shard.mu">> >>

\* Get, and Count on each shard (game_store.go 74-75, 134-136)
ReadShard == << <<"RLock", "shard.mu">>, <<"RUnlock", "shard.mu">> >>

\* ListPending on a shard holding a Pending match (game_store.go 105-112): GetStatus and
\* GetSnapshot inside the shard's read lock
ListShard ==
    << <<"RLock", "shard.mu">>, <<"RLock", "g.mu">>, <<"RUnlock", "g.mu">>,
       <<"RLock", "g.mu">>, <<"RUnlock", "g.mu">>, <<"RUnlock", "shard.mu">> >>

\* a Join that looks the match up in the store while it holds g.mu
WriteGame_ThroughShard ==
    << <<"Lock", "g.mu">>, <<"Lock", "shard.mu">>, <<"Unlock", "shard.mu">>,
       <<"Unlock", "g.mu">> >>

\* Join, MakeMove (game.go 43-44, 61-62)
WriteGame == << <<"Lock", "g.mu">>, <<"Unlock", "g.mu">> >>

\* GetPlayerMark, GetStatus, GetSnapshot (game.go 123-124, 130-131, 137-138)
ReadGame == << <<"RLock", "g.mu">>, <<"RUnlock", "g.mu">> >>

\* getOrCreate finding the record (stats_store.go 258-264), as Get and Record* do
ReadStats == << <<"RLock", "statsShard.mu">>, <<"RUnlock", "statsShard.mu">> >>

\* getOrCreate not finding it (stats_store.go 258-277): the read lock is released
\* before the write lock is asked for
CreateStats ==
    << <<"RLock", "statsShard.mu">>, <<"RUnlock", "statsShard.mu">>,
       <<"Lock", "statsShard.mu">>, <<"Unlock", "statsShard.mu">> >>

\* subscribe, unsubscribe (server.go 382-383, 393-394)
WriteSubs == << <<"Lock", "subscribersMu">>, <<"Unlock", "subscribersMu">> >>

\* broadcastUpdate (server.go 407-408): its sends never wait
ReadSubs == << <<"RLock", "subscribersMu">>, <<"RUnlock", "subscribersMu">> >>

\* what each call of the core does with the locks
LockPlan(op) ==
    CASE op \in {"Create", "Delete"} -> WriteShard
      [] op \in {"Get", "Count"} -> ReadShard
      [] op = "ListPending" -> ListShard
      [] op \in {"Join", "MakeMove"} -> WriteGame
      [] op = "Snapshot" -> ReadGame
      [] op \in {"StatsGet", "RecordWin", "RecordLoss", "RecordDraw"} -> ReadStats
      [] op \in {"StatsGetNew", "RecordWinNew", "RecordLossNew", "RecordDrawNew"} -> CreateStats
      [] op \in {"Subscribe", "Unsubscribe"} -> WriteSubs
      [] op = "Broadcast" -> ReadSubs

CoreOps ==
    {"Create", "Delete", "Get", "Count", "ListPending", "Join", "MakeMove", "Snapshot",
     "StatsGet", "RecordWin", "RecordLoss", "RecordDraw",
     "StatsGetNew", "RecordWinNew", "RecordLossNew", "RecordDrawNew",
     "Subscribe", "Unsubscribe", "Broadcast"}

\* the goroutines calling into the core
Callers == {1, 2, 3}

IdleCall == [plan |-> <<>>, held |-> <<>>, waiting |-> FALSE]

notOrder == <<gameVars, boardVars, lockVars, srvVars, cloneVars, regVars, statVars, readVars, fanVars>>

InitOrder ==
    /\ locks = [m \in Mutexes |-> [w |-> FALSE, r |-> 0, ww |-> FALSE]]
    /\ calls = [t \in Callers |-> IdleCall]
    /\ NoFanout
    /\ stats = <<>>
    /\ req = <<>>
    /\ clock = 0
    /\ game = NoGame
    /\ last = NoCall
    /\ board = NoBoard
    /\ lastB = NoCallB
    /\ NoReader
    /\ NoStats
    /\ NoRegistry
    /\ NoClone
    /\ NoLocking

\* the next lock operation of goroutine t, and the mutex it names
NextOp(t) == Head(calls[t].plan)[1]
NextMutex(t) == Head(calls[t].plan)[2]

\* a goroutine enters a call
StartCall(t, op) ==
    /\ calls[t] = IdleCall
    /\ calls' = [calls EXCEPT ![t].plan = LockPlan(op)]
    /\ UNCHANGED <<locks, notOrder>>

\* RWMutex.Lock, first half: the writer takes the writers' mutex and announces itself;
\* from here on RLock waits
LockAnnounce(t) ==
    /\ calls[t].plan # <<>> /\ NextOp(t) = "Lock" /\ ~calls[t].waiting
    /\ ~locks[NextMutex(t)].w /\ ~locks[NextMutex(t)].ww
    /\ locks' = [locks EXCEPT ![NextMutex(t)].ww = TRUE]
    /\ calls' = [calls EXCEPT ![t].waiting = TRUE]
    /\ UNCHANGED notOrder

\* RWMutex.Lock, second half: the readers that were inside have left
LockAcquire(t) ==
    /\ calls[t].plan # <<>> /\ NextOp(t) = "Lock" /\ calls[t].waiting
    /\ locks[NextMutex(t)].r = 0
    /\ locks' = [locks EXCEPT ![NextMutex(t)] = [w |-> TRUE, r |-> 0, ww |-> FALSE]]
    /\ calls' = [calls EXCEPT ![t] = [plan |-> Tail(@.plan),
                                       held |-> Append(@.held, NextMutex(t)),
                                       waiting |-> FALSE]]
    /\ UNCHANGED notOrder

\* RWMutex.RLock: no writer inside and none announced
RLockAcquire(t) ==
    /\ calls[t].plan # <<>> /\ NextOp(t) = "RLock"
    /\ ~locks[NextMutex(t)].w /\ ~locks[NextMutex(t)].ww
    /\ locks' = [locks EXCEPT ![NextMutex(t)].r = @ + 1]
    /\ calls' = [calls EXCEPT ![t] = [@ EXCEPT !.plan = Tail(@),
                                                !.held = Append(@, NextMutex(t))]]
    /\ UNCHANGED notOrder

\* RWMutex.Unlock and RWMutex.RUnlock, the most recent mutex first as the defers run
Release(t) ==
    /\ calls[t].plan # <<>> /\ NextOp(t) \in {"Unlock", "RUnlock"}
    /\ locks' = [locks EXCEPT ![NextMutex(t)] =
                    IF NextOp(t) = "Unlock" THEN [@ EXCEPT !.w = FALSE]
                    ELSE [@ EXCEPT !.r = @ - 1]]
    /\ calls' = [calls EXCEPT ![t] =
                    IF Tail(calls[t].plan) = <<>> THEN IdleCall
                    ELSE [@ EXCEPT !.plan = Tail(@),
                                   !.held = SubSeq(@, 1, Len(@) - 1)]]
    /\ UNCHANGED notOrder

\* one lock operation of goroutine t
LockStep(t) == LockAnnounce(t) \/ LockAcquire(t) \/ RLockAcquire(t) \/ Release(t)

NextOrder ==
    \/ \E t \in Callers : \E op \in CoreOps : StartCall(t, op)
    \/ \E t \in Callers : LockAnnounce(t)
    \/ \E t \in Callers : LockAcquire(t)
    \/ \E t \in Callers : RLockAcquire(t)
    \/ \E t \in Callers : Release(t)

SpecOrder == InitOrder /\ [][NextOrder]_vars

\* the scheduler runs every goroutine, and a goroutine waiting for a mutex gets it once
\* it is free often enough: Unlock wakes the readers that waited, and sync.Mutex hands
\* over to a writer that has waited long.  Nothing makes a goroutine start a call.
FairOrder == \A t \in Callers : SF_vars(LockStep(t))

SpecOrderFair == SpecOrder /\ FairOrder

----------------------------------------------------------------------------
(* Vocabulary of the properties: a full scan of the board for runs *)

Terminal == {StatusXWon, StatusOWon, StatusDraw}

CellAt(b, r, c) == b.Cells[r * b.Size + c]
RowOf(b, i) == i \div b.Size
ColOf(b, i) == i % b.Size

Orientations == {<<0, 1>>, <<1, 0>>, <<1, 1>>, <<1, -1>>}

\* the cells of the straight segment of n cells starting at (r, c) towards d
Segment(r, c, d, n) == {<<r + k * d[1], c + k * d[2]>> : k \in 0..(n - 1)}

\* every segment of winLength cells that lies on the board
Segments(b) ==
    {s \in {Segment(r, c, d, b.WinLength) :
               r \in 0..(b.Size - 1), c \in 0..(b.Size - 1), d \in Orientations} :
        \A p \in s : p[1] \in 0..(b.Size - 1) /\ p[2] \in 0..(b.Size - 1)}

HasRunOf(b, m) == \E s \in Segments(b) : \A p \in s : CellAt(b, p[1], p[2]) = m
HasRun(b) == HasRunOf(b, MarkX) \/ HasRunOf(b, MarkO)
RunThrough(b, r, c, m) ==
    \E s \in Segments(b) : <<r, c>> \in s /\ \A p \in s : CellAt(b, p[1], p[2]) = m
AllOccupied(b) == NumMarks(b) = b.Size * b.Size

\* the cells whose mark differs between two boards
Changed(b1, b2) == {i \in DOMAIN b1.Cells : b1.Cells[i] # b2.Cells[i]}

----------------------------------------------------------------------------
(* C1: the status of a match only ever moves Pending -> InProgress -> one
   of XWon, OWon, Draw; it never moves backward, never goes from Pending
   straight to a terminal status, and never leaves a terminal status. *)
StatusStep(s, t) ==
    \/ s = t
    \/ s = StatusPending /\ t = StatusInProgress
    \/ s = StatusInProgress /\ t \in Terminal

C1_StatusOrder == [][StatusStep(game.Status, game'.Status)]_vars

\* a call was rejected on a match that had gone all the way to a terminal status
C1_Witness == game.Status \in Terminal /\ last.op = "Join" /\ last.err = ErrGameAlreadyStarted

(* C2: X places the first mark; every successful move places the mark of
   the current turn and, when the match stays InProgress, leaves turn at the
   opponent of the mark just placed; from a terminal status every MakeMove
   returns GameNotInProgress. *)
TurnStep ==
    /\ \A i \in Changed(game.Board, game'.Board) :
          /\ game'.Board.Cells[i] = game.Turn
          /\ NumMarks(game.Board) = 0 => game'.Board.Cells[i] = MarkX
          /\ game'.Status = StatusInProgress =>
                game'.Turn = Opponent(game'.Board.Cells[i])
    /\ (game.Status \in Terminal /\ last'.op = "MakeMove") =>
          last'.err = ErrGameNotInProgress

C2_TurnAlternates == [][TurnStep]_vars

\* a move was rejected after the match ended
C2_Witness ==
    /\ game.Status \in Terminal
    /\ last = [op |-> "MakeMove", err |-> ErrGameNotInProgress]

(* C3: the result of a match that ends through MakeMove is recorded in the
   stats exactly once, whatever the interleaving of the requests: the
   winner has one win and the loser one loss, or both players have one
   draw, and every other counter is zero. *)
Counters(st, u) ==
    IF u \in DOMAIN st
    THEN [Wins |-> st[u].Wins, Losses |-> st[u].Losses, Draws |-> st[u].Draws]
    ELSE [Wins |-> 0, Losses |-> 0, Draws |-> 0]

One(cond) == IF cond THEN 1 ELSE 0

ResultOnce(g, u) ==
    [Wins |-> One((g.Status = StatusXWon /\ u = g.PlayerX)
                    \/ (g.Status = StatusOWon /\ u = g.PlayerO)),
     Losses |-> One((g.Status = StatusXWon /\ u = g.PlayerO)
                      \/ (g.Status = StatusOWon /\ u = g.PlayerX)),
     Draws |-> One(g.Status = StatusDraw /\ u \in {g.PlayerX, g.PlayerO})]

C3_RecordedExactlyOnce ==
    \A u \in UserIDs :
        /\ Counters(stats, u).Wins <= ResultOnce(game, u).Wins
        /\ Counters(stats, u).Losses <= ResultOnce(game, u).Losses
        /\ Counters(stats, u).Draws <= ResultOnce(game, u).Draws
        /\ (\A h \in Handlers : req[h].pc = "idle") /\ IsFinished(game.Status) =>
              Counters(stats, u) = ResultOnce(game, u)

(* C4: of all Join calls on a match, by players other than the creator and
   from any threads, exactly one returns nil; playerO is its caller and the
   status is no longer Pending; every other one returns GameAlreadyStarted;
   playerO never changes once a Join has succeeded. *)
JoinResults ==
    /\ Len(joiners) <= 1
    /\ Len(joiners) = 1 => game.PlayerO = joiners[1] /\ game.Status # StatusPending
    /\ \A t \in Threads :
          (th[t].pc = "unlock" /\ th[t].op = "Join" /\ th[t].playerID # game.PlayerX
              /\ th[t].err # Nil) =>
             /\ th[t].err = ErrGameAlreadyStarted
             /\ Len(joiners) = 1

C4_JoinSingleUse ==
    /\ []JoinResults
    /\ [][joiners # <<>> => game'.PlayerO = game.PlayerO]_vars

\* a second player's Join is refused after the first one's succeeded
C4_Witness ==
    \E t \in Threads :
        /\ th[t].pc = "unlock" /\ th[t].op = "Join"
        /\ th[t].err = ErrGameAlreadyStarted
        /\ th[t].playerID \notin {game.PlayerX, game.PlayerO}
        /\ Len(joiners) = 1

(* C5: MakeMove (and Join) calls from several threads behave as if run one
   after the other in the order they took g.mu: each call returns what it
   would return run alone at that point, the state between calls is the
   state of that sequential run, and no two calls succeed for the same turn
   or the same cell. *)
CountOf(b, m) == Cardinality({i \in DOMAIN b.Cells : b.Cells[i] = m})

C5_Serialized ==
    /\ \A t \in Threads : th[t].pc = "unlock" => th[t].err = th[t].expect
    /\ (\A t \in Threads : th[t].pc = "idle") =>
          /\ game = lin
          /\ okMoves = NumMarks(game.Board)
          /\ CountOf(game.Board, MarkX) - CountOf(game.Board, MarkO) \in {0, 1}

\* a move refused because an earlier call had already taken the cell
C5_Witness ==
    \E t \in Threads :
        /\ th[t].pc = "unlock" /\ th[t].op = "MakeMove"
        /\ th[t].err = ErrCellOccupied
        /\ okMoves >= 2

(* C6: after every successful move CheckWinner at the played cell is
   non-Empty exactly when a scan of the whole board finds a run of winLength
   equal marks; a match that is InProgress has no such run on its board. *)
AnchoredStep ==
    \A i \in Changed(game.Board, game'.Board) :
        (CheckWinner(game'.Board, RowOf(game'.Board, i), ColOf(game'.Board, i)) # MarkEmpty)
            <=> HasRun(game'.Board)

C6_AnchoredWinDetection ==
    /\ [][AnchoredStep]_vars
    /\ [](game.Status = StatusInProgress => ~HasRun(game.Board))

\* a match won by a run, reached by a successful move
C6_Witness ==
    /\ game.Status \in {StatusXWon, StatusOWon}
    /\ HasRun(game.Board)
    /\ last = [op |-> "MakeMove", err |-> Nil]

(* C7: a successful move that completes a run of winLength of the mover's
   mark through the played cell sets the status to XWon for X and OWon for
   O and leaves turn at the mover's mark, also when it fills the last
   Empty cell. *)
WinStep ==
    \A i \in Changed(game.Board, game'.Board) :
        LET m == game'.Board.Cells[i] IN
        RunThrough(game'.Board, RowOf(game'.Board, i), ColOf(game'.Board, i), m) =>
            /\ game'.Status = IF m = MarkX THEN StatusXWon ELSE StatusOWon
            /\ game'.Turn = game.Turn
            /\ game'.Turn = m

C7_WinSetsStatus == [][WinStep]_vars

\* a win completed by the move that filled the board
C7_Witness ==
    /\ game.Status = StatusXWon
    /\ AllOccupied(game.Board)
    /\ HasRunOf(game.Board, MarkX)

(* C8: the status is Draw exactly when the board is full and holds no run
   of winLength equal marks. *)
C8_DrawIffFullNoRun ==
    game.Status = StatusDraw <=> (AllOccupied(game.Board) /\ ~HasRun(game.Board))

\* a drawn match
C8_Witness == game.Status = StatusDraw /\ last = [op |-> "MakeMove", err |-> Nil]

(* C9: a cell that holds a mark keeps it; Set outside the board returns
   InvalidPosition and Set on an occupied cell returns CellOccupied, both
   leaving every cell as it was; Get returns InvalidPosition exactly when
   row or col is outside [0, size), and the cell's mark otherwise. *)
Outside(b, r, c) == r < 0 \/ r >= b.Size \/ c < 0 \/ c >= b.Size

CellStep ==
    /\ \A i \in DOMAIN board.Cells :
          board.Cells[i] # MarkEmpty => board'.Cells[i] = board.Cells[i]
    /\ lastB'.op = "Set" =>
          /\ Outside(board, lastB'.row, lastB'.col) =>
                lastB'.err = ErrInvalidPosition /\ board' = board
          /\ (~Outside(board, lastB'.row, lastB'.col)
                 /\ CellAt(board, lastB'.row, lastB'.col) # MarkEmpty) =>
                lastB'.err = ErrCellOccupied /\ board' = board
          /\ (~Outside(board, lastB'.row, lastB'.col)
                 /\ CellAt(board, lastB'.row, lastB'.col) = MarkEmpty) =>
                /\ lastB'.err = Nil
                /\ CellAt(board', lastB'.row, lastB'.col) = lastB'.mark
    /\ lastB'.op = "Get" =>
          /\ board' = board
          /\ lastB'.err = ErrInvalidPosition <=> Outside(board, lastB'.row, lastB'.col)
          /\ ~Outside(board, lastB'.row, lastB'.col) =>
                lastB'.err = Nil /\ lastB'.mark = CellAt(board, lastB'.row, lastB'.col)

C9_CellsNeverChange == [][CellStep]_vars

\* a Set on an occupied cell was refused
C9_Witness ==
    /\ lastB.op = "Set"
    /\ lastB.err = ErrCellOccupied
    /\ lastB.mark # CellAt(board, lastB.row, lastB.col)

(* C10: MakeMove returns the first failing check in the order
   GameNotInProgress, PlayerNotInGame, NotYourTurn, InvalidPosition,
   CellOccupied, and succeeds only when none applies. *)
FirstFailing(g, p, r, c) ==
    IF g.Status # StatusInProgress THEN ErrGameNotInProgress
    ELSE IF p # g.PlayerX /\ p # g.PlayerO THEN ErrPlayerNotInGame
    ELSE IF (IF p = g.PlayerX THEN MarkX ELSE MarkO) # g.Turn THEN ErrNotYourTurn
    ELSE IF r < 0 \/ r >= g.Board.Size \/ c < 0 \/ c >= g.Board.Size THEN ErrInvalidPosition
    ELSE IF CellAt(g.Board, r, c) # MarkEmpty THEN ErrCellOccupied
    ELSE Nil

C10_ErrorOrder ==
    /\ \A p \in UserIDs : \A r \in Coords(game.Board) : \A c \in Coords(game.Board) :
          GameMakeMove(game, p, r, c, clock + 1).err = FirstFailing(game, p, r, c)
    \* a refused move left the game as it was, so its error is one the order predicts here
    /\ (last.op = "MakeMove" /\ last.err # Nil) =>
          \E p \in UserIDs : \E r \in Coords(game.Board) : \E c \in Coords(game.Board) :
              FirstFailing(game, p, r, c) = last.err

\* a move that passed every check but the last one
C10_Witness == last = [op |-> "MakeMove", err |-> ErrCellOccupied]

(* C11: Join returns GameAlreadyStarted whenever the match is not Pending,
   the creator included, and CannotJoinOwnGame when it is Pending and the
   caller is playerX; a Join refused with CannotJoinOwnGame leaves the match
   Pending with playerO unset, and a Join by any other player then succeeds. *)
JoinExpected(g, p) ==
    IF g.Status # StatusPending THEN ErrGameAlreadyStarted
    ELSE IF p = g.PlayerX THEN ErrCannotJoinOwnGame
    ELSE Nil

JoinErrorStep ==
    last'.op = "Join" =>
        /\ last'.err \in {JoinExpected(game, p) : p \in UserIDs}
        /\ last'.err = ErrGameAlreadyStarted => game.Status # StatusPending /\ game' = game
        /\ last'.err = ErrCannotJoinOwnGame =>
              /\ game' = game
              /\ game'.Status = StatusPending
              /\ game'.PlayerO = ""
              /\ \A p \in UserIDs \ {game'.PlayerX} :
                    LET res == GameJoin(game', p, clock' + 1) IN
                    /\ res.err = Nil
                    /\ res.game.PlayerO = p
                    /\ res.game.Status = StatusInProgress

C11_JoinErrors ==
    /\ [](\A p \in UserIDs : GameJoin(game, p, clock + 1).err = JoinExpected(game, p))
    /\ [][JoinErrorStep]_vars

\* the creator's own Join was refused and the match still waits for an opponent
C11_Witness ==
    /\ last = [op |-> "Join", err |-> ErrCannotJoinOwnGame]
    /\ game.Status = StatusPending
    /\ game.PlayerO = ""

(* C12: a Join or MakeMove that returns an error leaves players, cells, turn,
   status and updatedAt as they were; a call that returns nil applies all of
   its effects together: Join sets playerO, InProgress and updatedAt; MakeMove
   places one mark of the mover, updates status or turn, and sets updatedAt. *)
AllOrNothingStep ==
    /\ (last'.op \in {"Join", "MakeMove"} /\ last'.err # Nil) => game' = game
    /\ (last'.op = "Join" /\ last'.err = Nil) =>
          /\ game.PlayerO = "" /\ game'.PlayerO \in UserIDs \ {game.PlayerX}
          /\ game.Status = StatusPending /\ game'.Status = StatusInProgress
          /\ game'.UpdatedAt = clock' /\ game'.UpdatedAt > game.UpdatedAt
          /\ game' = [game EXCEPT !.PlayerO = game'.PlayerO,
                                  !.Status = StatusInProgress,
                                  !.UpdatedAt = clock']
    /\ (last'.op = "MakeMove" /\ last'.err = Nil) =>
          /\ Cardinality(Changed(game.Board, game'.Board)) = 1
          /\ \A i \in Changed(game.Board, game'.Board) :
                game.Board.Cells[i] = MarkEmpty /\ game'.Board.Cells[i] = game.Turn
          /\ \/ game'.Status \in Terminal /\ game'.Turn = game.Turn
             \/ game'.Status = StatusInProgress /\ game'.Turn = Opponent(game.Turn)
          /\ game'.UpdatedAt = clock' /\ game'.UpdatedAt > game.UpdatedAt
          /\ game'.PlayerX = game.PlayerX /\ game'.PlayerO = game.PlayerO
    \* and nothing changes the game except a call that returned nil
    /\ game' # game => last'.err = Nil

C12_AllOrNothing == [][AllOrNothingStep]_vars

\* a move was refused after marks had been placed
C12_Witness ==
    /\ last.op = "MakeMove"
    /\ last.err \in {ErrNotYourTurn, ErrCellOccupied, ErrInvalidPosition}
    /\ NumMarks(game.Board) >= 2
    /\ game.Status = StatusInProgress

(* C13: a clone or snapshot is independent of its source: a later move on
   the live match changes no cell of the snapshot's grid, placing a mark on
   the snapshot's grid changes no cell of the live grid, and a snapshot
   starts out as a copy of the live grid at its own address. *)
IndependentStep ==
    /\ (snap # NoSnap /\ snap' = snap) =>
          /\ Load(heap', game'.Board) # Load(heap, game.Board) =>
                Load(heap', snap.Board) = Load(heap, snap.Board)
          /\ Load(heap', snap.Board) # Load(heap, snap.Board) =>
                /\ Load(heap', game'.Board) = Load(heap, game.Board)
                /\ game' = game
    /\ (snap' # snap) =>
          /\ Load(heap', snap'.Board) = Load(heap, game.Board)
          /\ [snap' EXCEPT !.Board = 0] = [GetSnapshot(LoadGame(heap, game)) EXCEPT !.Board = 0]
          /\ Load(heap', game'.Board) = Load(heap, game.Board)

C13_CloneIndependent ==
    /\ [](snap # NoSnap => snap.Board.Cells # game.Board.Cells)
    /\ [][IndependentStep]_vars

\* the snapshot holds a mark the live board lacks, and the live board one the snapshot lacks
C13_Witness ==
    /\ snap # NoSnap
    /\ \E i \in DOMAIN heap[snap.Board.Cells] :
          heap[snap.Board.Cells][i] # MarkEmpty /\ heap[game.Board.Cells][i] = MarkEmpty
    /\ \E i \in DOMAIN heap[snap.Board.Cells] :
          heap[snap.Board.Cells][i] = MarkEmpty /\ heap[game.Board.Cells][i] # MarkEmpty

(* C14: a snapshot taken while Join and MakeMove calls run in other threads
   never shows a half-applied call: it equals the game as the calls that
   took the lock so far left it, playerO is set exactly when the status has
   left Pending, the turn and the status agree with the marks on the board,
   and updatedAt counts the calls applied. *)
Whole(s) ==
    /\ s.PlayerO = "" <=> s.Status = StatusPending
    /\ s.Status = StatusPending => NumMarks(s.Board) = 0
    /\ s.Status = StatusInProgress =>
          s.Turn = IF CountOf(s.Board, MarkX) = CountOf(s.Board, MarkO) THEN MarkX ELSE MarkO
    /\ s.Status \in {StatusPending, StatusInProgress} =>
          ~HasRun(s.Board) /\ ~AllOccupied(s.Board)
    /\ s.UpdatedAt = 1 + NumMarks(s.Board) + (IF s.PlayerO = "" THEN 0 ELSE 1)

SnapshotStep ==
    (last'.op = "GetSnapshot" /\ last' # last) =>
        /\ last'.snapshot = GetSnapshot(lin)
        /\ Whole(last'.snapshot)

C14_SnapshotWhole ==
    /\ [](last.op = "GetSnapshot" => Whole(last.snapshot))
    /\ [][SnapshotStep]_vars

\* a snapshot was taken between two moves and a writer is now half way through the next
C14_Witness ==
    /\ last.op = "GetSnapshot"
    /\ NumMarks(last.snapshot.Board) >= 1
    /\ \E t \in Threads : th[t].pc = "mfinish"
    /\ NumMarks(game.Board) > NumMarks(last.snapshot.Board)

(* C16: Get returns the stored match, as it is now, or GameNotFound; Delete
   removes the match or returns GameNotFound and changes nothing; an id is
   present from a successful Create until a successful Delete, so after a
   Delete both Get and Delete fail until it is created again; every other
   id keeps its match. *)
Present(st, id) == \E i \in DOMAIN st : id \in DOMAIN st[i]
MatchOf(st, id) == st[CHOOSE i \in DOMAIN st : id \in DOMAIN st[i]][id]

GetDeleteStep ==
    /\ lastS'.op = "Get" =>
          /\ store' = store
          /\ Present(store, lastS'.id) =>
                lastS'.err = Nil /\ lastS'.game = MatchOf(store, lastS'.id)
          /\ ~Present(store, lastS'.id) => lastS'.err = ErrGameNotFound
    /\ lastS'.op = "Delete" =>
          /\ ~Present(store', lastS'.id)
          /\ Present(store, lastS'.id) => lastS'.err = Nil
          /\ ~Present(store, lastS'.id) => lastS'.err = ErrGameNotFound /\ store' = store
          /\ \A id \in GameIDs \ {lastS'.id} :
                /\ Present(store', id) <=> Present(store, id)
                /\ Present(store, id) => MatchOf(store', id) = MatchOf(store, id)
    /\ \A id \in GameIDs :
          /\ (Present(store, id) /\ ~Present(store', id)) =>
                lastS' = [op |-> "Delete", id |-> id, err |-> Nil]
          /\ (~Present(store, id) /\ Present(store', id)) =>
                lastS' = [op |-> "Create", id |-> id, err |-> Nil]

C16_GetDelete ==
    /\ [](\A id \in GameIDs :
            /\ StoreGet(store, id).err = (IF Present(store, id) THEN Nil ELSE ErrGameNotFound)
            /\ StoreDelete(store, id).err = (IF Present(store, id) THEN Nil ELSE ErrGameNotFound))
    /\ [][GetDeleteStep]_vars

\* a Delete of an absent id was refused while other matches were stored
C16_Witness ==
    /\ lastS.op = "Delete"
    /\ lastS.err = ErrGameNotFound
    /\ Cardinality(StoredIDs(store)) >= 2

(* C18: called with no other call running, ListPending(limit > 0, offset >= 0)
   returns as total the number of Pending matches stored, and a page of
   exactly min(limit, max(0, total - offset)) snapshots, all Pending, of
   distinct stored matches; limit 2, offset 3 over 4 pending matches gives
   1 result with total 4. *)
PendingIDs(st) == {id \in GameIDs : Present(st, id) /\ MatchOf(st, id).Status = StatusPending}
Min(a, b) == IF a < b THEN a ELSE b
Max(a, b) == IF a > b THEN a ELSE b

C18_Pagination ==
    (lastS.op = "ListPending" /\ lastS.limit > 0) =>
        /\ lastS.total = Cardinality(PendingIDs(store))
        /\ Len(lastS.games) = Min(lastS.limit, Max(0, lastS.total - lastS.offset))
        /\ \A k \in 1..Len(lastS.games) :
              /\ lastS.games[k].Status = StatusPending
              /\ lastS.games[k].ID \in PendingIDs(store)
              /\ lastS.games[k] = GetSnapshot(MatchOf(store, lastS.games[k].ID))
        /\ \A j, k \in 1..Len(lastS.games) : j # k => lastS.games[j].ID # lastS.games[k].ID

\* limit 2, offset 3 over 4 pending matches: 1 result, total 4
C18_Witness ==
    /\ lastS.op = "ListPending"
    /\ lastS.limit = 2 /\ lastS.offset = 3
    /\ lastS.total = 4 /\ Len(lastS.games) = 1
    /\ Cardinality(PendingIDs(store)) = 4

(* C15: Create checks and inserts as one step with respect to every other
   call on the id: among the Create calls with one id (and no Delete in
   between) exactly one returns nil and every other returns
   GameAlreadyExists, and the match stored is the one the successful call
   passed. *)
ShardFree(id) == smu[getShard(store, id)].w = 0

CreateReturns(t) == cl[t].pc = "unlock" /\ cl[t].op = "Create" /\ cl'[t].pc = "idle"

CreateStep ==
    \A t \in Clients : CreateReturns(t) =>
        /\ cl[t].err \in {Nil, ErrGameAlreadyExists}
        /\ cl[t].err = Nil =>
              /\ made[cl[t].id].net = 0
              /\ Present(store', cl[t].id)
              /\ MatchOf(store', cl[t].id) = cl[t].g
        /\ cl[t].err = ErrGameAlreadyExists =>
              /\ made[cl[t].id].net = 1
              /\ Present(store', cl[t].id)
              /\ MatchOf(store', cl[t].id).PlayerX = made[cl[t].id].by

C15_CreateAtomic ==
    /\ [](\A id \in ShardIDs :
            /\ made[id].net \in {0, 1}
            /\ ShardFree(id) =>
                  /\ Present(store, id) <=> made[id].net = 1
                  /\ Present(store, id) =>
                        MatchOf(store, id).ID = id /\ MatchOf(store, id).PlayerX = made[id].by)
    /\ [][CreateStep]_vars

\* a Create is about to return GameAlreadyExists for an id another creator's match holds
C15_Witness ==
    \E t \in Clients :
        /\ cl[t].pc = "unlock" /\ cl[t].op = "Create"
        /\ cl[t].err = ErrGameAlreadyExists
        /\ made[cl[t].id].net = 1
        /\ made[cl[t].id].by # cl[t].g.PlayerX
        /\ \E u \in Clients \ {t} : cl[u].pc # "idle"

(* C19: once every call in flight has returned, Count() equals the
   successful Creates minus the successful Deletes; a Create or Delete that
   fails, a Get, and a Join on a stored match, never change it; Creates of N
   distinct ids from several threads yield Count = N. *)
AllIdle == \A t \in Clients : cl[t].pc = "idle"

RECURSIVE NetOf(_, _)
NetOf(m, ids) ==
    IF ids = {} THEN 0
    ELSE LET id == CHOOSE x \in ids : TRUE IN m[id].net + NetOf(m, ids \ {id})

CountStep ==
    /\ Count(store') # Count(store) =>
          \E t \in Clients :
              /\ cl'[t].pc = "unlock" /\ cl'[t].err = Nil
              /\ \/ cl[t].pc = "cinsert" /\ Count(store') = Count(store) + 1
                 \/ cl[t].pc = "dremove" /\ Count(store') = Count(store) - 1
    \* a call that fails leaves the store as it was
    /\ \A t \in Clients :
          (cl[t].pc \in {"ccheck", "dcheck"} /\ cl'[t].pc = "unlock") =>
              cl'[t].err # Nil /\ store' = store
    \* the history moves only when a successful call returns
    /\ NetOf(made', ShardIDs) # NetOf(made, ShardIDs) =>
          \E t \in Clients : cl[t].pc = "unlock" /\ cl[t].err = Nil /\ cl'[t].pc = "idle"
    \* a Join changes a stored match, never the number stored; a Get changes nothing
    /\ (cl' = cl /\ store' # store) => Count(store') = Count(store)
    /\ lastS' # lastS => store' = store

C17_AllPending ==
    lastS.op = "ListPending" =>
        \A k \in 1..Len(lastS.games) : lastS.games[k].Status = StatusPending

(* C20: no update of the stats is lost, whatever the interleaving of the
   RecordWin, RecordLoss and RecordDraw calls on one user id, the lazy
   creation of the record by several callers at once included: the user's
   record always holds exactly the calls that have returned, it is never
   replaced, and a Get once they have all returned gives wins = a,
   losses = b, draws = c and total = a + b + c. *)
RecordOf(u) ==
    LET i == statsShard(ushards, u) IN
    IF u \in DOMAIN ushards[i] THEN urecs[ushards[i][u]] ELSE Counters0

NoLostStep ==
    /\ \A u \in StatUsers :
          LET i == statsShard(ushards, u) IN
          u \in DOMAIN ushards[i] =>
              u \in DOMAIN ushards'[i] /\ ushards'[i][u] = ushards[i][u]
    /\ lastU' # lastU =>
          /\ lastU'.op = "Get"
          /\ lastU'.Wins = tally[lastU'.UserID].Wins
          /\ lastU'.Losses = tally[lastU'.UserID].Losses
          /\ lastU'.Draws = tally[lastU'.UserID].Draws
          /\ lastU'.total = lastU'.Wins + lastU'.Losses + lastU'.Draws
          /\ tally' = tally

C20_NoLostUpdate ==
    /\ [](\A u \in StatUsers : RecordOf(u) = tally[u])
    /\ [][NoLostStep]_vars

\* a caller that found no record at its first look finds, under the write
\* lock, the record another caller created and has already added to
C20_Witness ==
    \E t \in Workers :
        /\ wk[t].pc = "recheck"
        /\ Exists(ushards[statsShard(ushards, wk[t].userID)], wk[t].userID)
        /\ TotalGames(tally[wk[t].userID]) >= 1

(* C21: StatsStore.Get returns the three counters as the user's record held
   them at one instant between the start and the end of the call, whatever
   Record calls run on that user meanwhile: the triple returned is one of the
   triples the record held during the call. *)
C21_GetAtInstant ==
    lastU.op = "Get" =>
        [Wins |-> lastU.Wins, Losses |-> lastU.Losses, Draws |-> lastU.Draws] \in lastU.held

(* C22: RecordGameResult(winnerID, loserID, isDraw) changes exactly these
   counters: on a draw, draws +1 for each of the two ids that is not empty;
   otherwise wins +1 for winnerID and losses +1 for loserID, each only when
   not empty.  No other counter and no other user's record changes, and the
   empty id never gets a record. *)
ResultDelta(a, u) ==
    [Wins |-> One(~a.isDraw /\ u = a.winnerID),
     Losses |-> One(~a.isDraw /\ u = a.loserID),
     Draws |-> IF a.isDraw THEN One(u = a.winnerID) + One(u = a.loserID) ELSE 0]

ResultStep ==
    lastU'.op = "RecordGameResult" =>
        /\ "" \notin DOMAIN stats'
        /\ DOMAIN stats' = DOMAIN stats \cup ({lastU'.winnerID, lastU'.loserID} \ {""})
        /\ \A u \in UserIDs :
              /\ Counters(stats', u).Wins = Counters(stats, u).Wins + ResultDelta(lastU', u).Wins
              /\ Counters(stats', u).Losses
                    = Counters(stats, u).Losses + ResultDelta(lastU', u).Losses
              /\ Counters(stats', u).Draws = Counters(stats, u).Draws + ResultDelta(lastU', u).Draws
        /\ \A u \in DOMAIN stats' : stats'[u].UserID = u

C22_ResultCounters == [][ResultStep]_vars

\* a draw with one id empty has been recorded after a win with the loser empty
C22_Witness ==
    /\ lastU.op = "RecordGameResult"
    /\ lastU.isDraw
    /\ lastU.winnerID = ""
    /\ lastU.loserID = "bob"
    /\ DOMAIN stats = {"alice", "bob"}
    /\ Counters(stats, "alice") = [Wins |-> 1, Losses |-> 0, Draws |-> 0]
    /\ Counters(stats, "bob") = [Wins |-> 0, Losses |-> 0, Draws |-> 1]

(* C30: NewBoard(size, winLength) succeeds exactly when size >= 3 and
   3 <= winLength <= size, and then gives size*size cells, all Empty, with
   that size and win length; it fails with InvalidBoardSize when size < 3,
   whatever the win length, and with InvalidWinLength when size >= 3 and the
   win length is outside 3..size; NewGame returns the same error and no game. *)
C30_NewBoard ==
    last.op = "NewGame" =>
        LET ok == last.size >= 3 /\ 3 <= last.winLength /\ last.winLength <= last.size IN
        /\ last.err = Nil <=> ok
        /\ last.size < 3 => last.err = ErrInvalidBoardSize
        /\ last.size >= 3 /\ ~ok => last.err = ErrInvalidWinLength
        /\ ~ok => game = NoGame /\ board = NoBoard
        /\ ok =>
              /\ board.Size = last.size
              /\ board.WinLength = last.winLength
              /\ Cardinality(DOMAIN board.Cells) = last.size * last.size
              /\ \A i \in DOMAIN board.Cells : board.Cells[i] = MarkEmpty
              /\ game # NoGame
              /\ game.Board = board
              /\ game.Status = StatusPending

\* a size below 3 together with a win length above the size
C30_Witness ==
    /\ last.op = "NewGame"
    /\ last.size = 2
    /\ last.winLength = 5
    /\ last.err = ErrInvalidBoardSize
    /\ game = NoGame

(* C24: broadcastUpdate(gameID, update) puts the update exactly once on the
   channel of every observer registered under gameID whose channel is below
   capacity, drops it only for channels at capacity at that moment, and
   touches no channel registered under another match id; no channel ever
   holds more than its capacity. *)
Subscribed(gameID) ==
    {o \in Observers : obs[o].gameID = gameID /\ obs[o].pc \in {"hello", "loop", "defer"}}

SentTo(p) == pub[p].todo \ pub'[p].todo

FanoutStep ==
    \A p \in Publishers :
        /\ pub[p].pc = "rlock" /\ pub'[p].pc = "range" =>
              pub'[p].todo = Subscribed(pub[p].gameID)
        /\ pub[p].pc = "range" /\ pub'[p].pc = "range" =>
              \A ch \in SentTo(p) :
                  /\ ch \in Subscribed(pub[p].gameID)
                  /\ ch \notin pub[p].sent \cup pub[p].dropped
                  /\ Len(chans[ch].buf) < ChanCap =>
                        chans'[ch].buf = Append(chans[ch].buf, pub[p].update)
                  /\ Len(chans[ch].buf) >= ChanCap =>
                        /\ Len(chans[ch].buf) = ChanCap
                        /\ chans'[ch].buf = chans[ch].buf
                  /\ \A o \in Observers \ {ch} : chans'[o] = chans[o]
        /\ pub[p].pc = "range" /\ pub'[p].pc = "idle" =>
              /\ pub[p].sent \cup pub[p].dropped = Subscribed(pub[p].gameID)
              /\ pub[p].sent \cap pub[p].dropped = {}

C24_Fanout ==
    /\ [](\A o \in Observers : Len(chans[o].buf) <= ChanCap)
    /\ [][FanoutStep]_vars

\* a broadcast on g1 has filled the channel with room, skipped the full one
C24_Witness ==
    /\ pub[1].pc = "range"
    /\ pub[1].gameID = "g1"
    /\ pub[1].todo = {}
    /\ pub[1].sent = {1}
    /\ pub[1].dropped = {2}
    /\ Len(chans[2].buf) = ChanCap

(* C25: unsubscribe(gameID, ch) takes the channel out of the match's set,
   removes the set when it becomes empty, so that the map never holds an
   empty set, and closes the channel; whatever broadcasts run meanwhile, no
   update is ever sent on a closed channel. *)
UnsubscribeStep ==
    \A o \in Observers :
        obs[o].pc = "defer" /\ obs'[o].pc = "done" =>
            /\ chans'[o].closed
            /\ \A id \in FanIDs : Registered(subs', id) = Registered(subs, id) \ {o}
            /\ \A p \in Publishers : o \notin pub[p].todo

C25_Unsubscribe ==
    /\ [](~panicked)
    /\ [](\A id \in DOMAIN subs : subs[id] # {})
    /\ [](\A o \in Observers : chans[o].closed => \A p \in Publishers : o \notin pub[p].todo)
    /\ [][UnsubscribeStep]_vars

\* the last observer of g1 has unsubscribed while a broadcast on g1 waits for the lock
C25_Witness ==
    /\ obs[1].pc = "done"
    /\ obs[1].gameID = "g1"
    /\ obs[1].why = "cancelled"
    /\ chans[1].closed
    /\ chans[1].buf # <<>>
    /\ "g1" \notin DOMAIN subs
    /\ pub[1].pc = "rlock"
    /\ pub[1].gameID = "g1"

(* C28: a stream that has subscribed unsubscribes on every way out: once
   StreamGameUpdates has returned (Send failed on the first state, Send
   failed on an update, a finished update was forwarded, or the stream was
   cancelled) its channel is in no match's set and is closed; no stream that
   has returned is still registered. *)
ExitPaths == {"send-initial", "send-update", "finished", "cancelled"}

C28_AlwaysUnsubscribes ==
    /\ \A o \in Observers :
          obs[o].pc = "done" /\ obs[o].why \in ExitPaths =>
              /\ chans[o].closed
              /\ \A id \in DOMAIN subs : o \notin subs[id]
    /\ \A id \in DOMAIN subs : \A o \in subs[id] :
          obs[o].pc \in {"hello", "loop", "defer"} /\ obs[o].gameID = id

\* one stream has returned after a finished update, the other after a failed first Send
C28_Witness ==
    /\ obs[1].pc = "done"
    /\ obs[1].why = "finished"
    /\ obs[2].pc = "done"
    /\ obs[2].why = "send-initial"
    /\ chans[1].closed
    /\ chans[2].closed
    /\ subs = <<>>

(* C23: broadcastUpdate never waits on a full channel: whatever the
   observers do, one that never reads included, every broadcast completes
   and the JoinGame or MakeMove request that made it returns, and an observer
   of that match whose channel has room gets the update even when another
   observer's channel is full. *)
RoomStep ==
    \A p \in Publishers :
        pub[p].pc = "range" /\ pub'[p].pc = "range" =>
            \A ch \in SentTo(p) :
                Len(chans[ch].buf) < ChanCap =>
                    /\ Len(chans'[ch].buf) = Len(chans[ch].buf) + 1
                    /\ chans'[ch].buf[Len(chans'[ch].buf)] = pub[p].update

C23_NeverBlocks ==
    /\ \A p \in Publishers : (pub[p].pc # "idle") ~> (pub[p].pc = "idle")
    /\ [][RoomStep]_vars

\* the broadcast went past a full channel first and then filled the one with room
C23_Witness ==
    /\ pub[1].pc = "range"
    /\ pub[1].todo = {}
    /\ pub[1].dropped = {1}
    /\ pub[1].sent = {2}
    /\ obs[1].pc = "loop"
    /\ obs[2].pc = "loop"

(* C27: a stream on a match ends by itself once the match is finished: from
   any moment at which the stream is subscribed and the match has a terminal
   status, StreamGameUpdates eventually returns although the stream is never
   cancelled and every Send succeeds, also when the match was finished
   before the stream subscribed and when the channel was full as the
   finished update was broadcast. *)
Streaming(o) == obs[o].pc \in {"hello", "loop"}

C27_StreamEnds ==
    \A o \in Observers :
        (Streaming(o) /\ isGameFinished(games[obs[o].gameID].Status)) ~> (obs[o].pc = "done")

(* C26: every successful JoinGame and MakeMove returns and publishes the
   snapshot of its own mutation: the update it broadcasts, which is also its
   response, shows the cells, the turn and the status exactly as its Join or
   MakeMove left them, whatever other requests run on the match. *)
SameView(s, t) == s.Board = t.Board /\ s.Turn = t.Turn /\ s.Status = t.Status

C26_OwnSnapshot ==
    \A p \in DOMAIN pub :
        pub[p].pc \in {"rlock", "range"} => SameView(pub[p].update.Game, pub[p].left)

(* C29: a finished update is final for an observer: among the updates put
   on an observer's channel no update with a non-terminal status comes after
   one with a terminal status, and the number of occupied cells never goes
   down from one update to a later one, whatever MakeMove requests run at
   once. *)
C29_TerminalIsFinal ==
    \A o \in DOMAIN chans :
        \A i \in 1..Len(chans[o].buf) : \A j \in 1..Len(chans[o].buf) :
            i < j =>
                /\ isGameFinished(chans[o].buf[i].Game.Status) =>
                      isGameFinished(chans[o].buf[j].Game.Status)
                /\ NumMarks(chans[o].buf[i].Game.Board) <= NumMarks(chans[o].buf[j].Game.Board)

(* C31: on the snapshot of every reachable match state GetWinner is playerX
   when the status is XWon, playerO when it is OWon and empty otherwise;
   GetLoser is the other player in those two cases and empty otherwise;
   IsDraw holds exactly when the status is Draw; winner and loser are both
   present and different exactly when the status is XWon or OWon. *)
C31_WinnerLoser ==
    LET s == GetSnapshot(game)
        won == s.Status \in {StatusXWon, StatusOWon} IN
    /\ s.Status = StatusXWon => GetWinner(s) = s.PlayerX /\ GetLoser(s) = s.PlayerO
    /\ s.Status = StatusOWon => GetWinner(s) = s.PlayerO /\ GetLoser(s) = s.PlayerX
    /\ ~won => GetWinner(s) = "" /\ GetLoser(s) = ""
    /\ IsDraw(s) <=> s.Status = StatusDraw
    /\ won <=> (GetWinner(s) # "" /\ GetLoser(s) # "" /\ GetWinner(s) # GetLoser(s))
    /\ won => {GetWinner(s), GetLoser(s)} = {s.PlayerX, s.PlayerO}

\* O has won: the winner is the joiner, the loser the creator
C31_Witness ==
    /\ game.Status = StatusOWon
    /\ GetWinner(GetSnapshot(game)) = "bob"
    /\ GetLoser(GetSnapshot(game)) = Creator

(* C32: in every reachable match state the X marks are as many as the O
   marks or one more; while the status is InProgress the turn is X exactly
   when the counts are equal and O exactly when X has one more; a Pending
   match has an all-Empty grid. *)
C32_MarkCounts ==
    LET x == CountOf(game.Board, MarkX)
        o == CountOf(game.Board, MarkO) IN
    /\ x - o \in {0, 1}
    /\ game.Status = StatusInProgress =>
          /\ game.Turn = MarkX <=> x = o
          /\ game.Turn = MarkO <=> x = o + 1
    /\ game.Status = StatusPending => NumMarks(game.Board) = 0

\* five marks on the board and O to move
C32_Witness ==
    /\ game.Status = StatusInProgress
    /\ CountOf(game.Board, MarkX) = 3
    /\ CountOf(game.Board, MarkO) = 2
    /\ game.Turn = MarkO

(* C33: the winner is the player who made the last successful move: with
   status XWon the grid holds a run of winLength X marks, no such run of O
   marks, and the last mark placed was X (one more X than O, and the move
   that set the status placed an X); the same for OWon with the marks
   exchanged; the grid never holds winning runs of both marks. *)
LastMoveStep ==
    game'.Status # game.Status /\ game'.Status \in {StatusXWon, StatusOWon} =>
        /\ Cardinality(Changed(game.Board, game'.Board)) = 1
        /\ \A i \in Changed(game.Board, game'.Board) :
              /\ game.Board.Cells[i] = MarkEmpty
              /\ game'.Board.Cells[i] = IF game'.Status = StatusXWon THEN MarkX ELSE MarkO

C33_WinnerMovedLast ==
    /\ [](game.Status = StatusXWon =>
             /\ HasRunOf(game.Board, MarkX)
             /\ ~HasRunOf(game.Board, MarkO)
             /\ CountOf(game.Board, MarkX) = CountOf(game.Board, MarkO) + 1)
    /\ [](game.Status = StatusOWon =>
             /\ HasRunOf(game.Board, MarkO)
             /\ ~HasRunOf(game.Board, MarkX)
             /\ CountOf(game.Board, MarkX) = CountOf(game.Board, MarkO))
    /\ [](~(HasRunOf(game.Board, MarkX) /\ HasRunOf(game.Board, MarkO)))
    /\ [](game.Status \in Terminal => \A u \in UserIDs : MoveCheck(game, u) # Nil)
    /\ [][LastMoveStep]_vars

\* O completed a run with its third mark
C33_Witness ==
    /\ game.Status = StatusOWon
    /\ CountOf(game.Board, MarkO) = 3
    /\ HasRunOf(game.Board, MarkO)
    /\ last = [op |-> "MakeMove", err |-> Nil]

(* C34: playerX is the creator given to NewGame and never changes; playerO
   is unset exactly while the status is Pending; once set, playerO differs
   from playerX, so an id resolves to at most one mark and two different
   ids are never both allowed to move in the same state. *)
C34_Players ==
    /\ game.PlayerX = Creator
    /\ game.PlayerO = "" <=> game.Status = StatusPending
    /\ game.PlayerO # "" => game.PlayerO # game.PlayerX
    /\ \A u \in UserIDs :
          /\ ~(u = game.PlayerX /\ u = game.PlayerO)
          /\ getPlayerMark(game, u) = MarkX <=> u = game.PlayerX
          /\ getPlayerMark(game, u) = MarkO <=> u = game.PlayerO
    /\ \A u \in UserIDs : \A v \in UserIDs :
          MoveCheck(game, u) = Nil /\ MoveCheck(game, v) = Nil => u = v

\* carol joined; the creator's own attempt had been refused before
C34_Witness ==
    /\ game.PlayerO = "carol"
    /\ game.Status = StatusInProgress
    /\ NumMarks(game.Board) = 1
    /\ last = [op |-> "Join", err |-> ErrGameAlreadyStarted]

(* C39: Get on a user id that no call has referenced returns that id with
   wins, losses and draws all 0; Get never changes a counter; every counter
   of every user never decreases and changes only by +1, through RecordWin,
   RecordLoss or RecordDraw on that user. *)
Grown(a, t0, t1) ==
    [Wins |-> a.Wins + (t1.Wins - t0.Wins),
     Losses |-> a.Losses + (t1.Losses - t0.Losses),
     Draws |-> a.Draws + (t1.Draws - t0.Draws)]

\* the calls recorded for one user grew by one RecordWin, RecordLoss or RecordDraw
OneMore(t0, t1) ==
    \/ t1 = [t0 EXCEPT !.Wins = @ + 1]
    \/ t1 = [t0 EXCEPT !.Losses = @ + 1]
    \/ t1 = [t0 EXCEPT !.Draws = @ + 1]

CountersStep ==
    /\ \A u \in StatUsers : RecordOf(u)' = Grown(RecordOf(u), tally[u], tally'[u])
    /\ \A u \in StatUsers :
          tally'[u] # tally[u] =>
              /\ OneMore(tally[u], tally'[u])
              /\ \A v \in StatUsers \ {u} : tally'[v] = tally[v]
    /\ rd.pc = "draws" /\ rd'.pc = "idle" =>
          /\ lastU'.op = "Get"
          /\ lastU'.UserID = rd.userID
          /\ TotalGames(tally[rd.userID]) = 0 =>
                lastU'.Wins = 0 /\ lastU'.Losses = 0 /\ lastU'.Draws = 0

C39_CountersOnlyGrow == [][CountersStep]_vars

\* Get on bob, whom no call had named, after three results were recorded for alice
C39_Witness ==
    /\ lastU.op = "Get"
    /\ lastU.UserID = "bob"
    /\ lastU.Wins = 0 /\ lastU.Losses = 0 /\ lastU.Draws = 0
    /\ TotalGames(tally["bob"]) = 0
    /\ RecordOf("alice") = [Wins |-> 1, Losses |-> 1, Draws |-> 1]

\* the stats registry counts the result of the finished game g
Counted(st, g) ==
    IF IsDraw(g)
    THEN /\ g.PlayerX \in DOMAIN st /\ st[g.PlayerX].Draws >= 1
         /\ g.PlayerO \in DOMAIN st /\ st[g.PlayerO].Draws >= 1
    ELSE /\ GetWinner(g) \in DOMAIN st /\ st[GetWinner(g)].Wins >= 1
         /\ GetLoser(g) \in DOMAIN st /\ st[GetLoser(g)].Losses >= 1

(* C37: whenever an update with a terminal status sits on an observer's
   channel, the result of that game has already been recorded in the stats
   registry. *)
C37_RecordedBeforePublished ==
    \A o \in DOMAIN chans : \A i \in 1..Len(chans[o].buf) :
        LET g == chans[o].buf[i].Game IN
        g.Status \in Terminal => Counted(stats, g)

(* C38: an unsubscribe for a channel that is not registered under the given
   match id completes without failure and leaves the sets of all matches as
   they were, and no channel is closed a second time. *)
SafeUnsubscribeStep ==
    /\ last'.op = "unsubscribe"
    /\ chans' # chans \/ panicked' # panicked
    /\ last'.ch \notin Registered(subs, last'.gameID)
    => /\ ~panicked'
       /\ subs' = subs

RefusedStep ==
    last'.op \in {"JoinGame", "MakeMove"} /\ last'.code # "OK" =>
        /\ chans' = chans
        /\ stats' = stats

C36_RefusedHasNoEffect == [][RefusedStep]_vars

\* a move refused on the finished game, whose end was published and recorded
C36_Witness ==
    /\ last = [op |-> "MakeMove", code |-> "FailedPrecondition"]
    /\ games["g1"].Status = StatusXWon
    /\ 1 \in Registered(subs, "g1")
    /\ chans[1].buf # <<>>
    /\ "alice" \in DOMAIN stats /\ stats["alice"].Wins = 1

\* goroutine t is inside a call
InCall(t) == calls[t] # IdleCall

\* the lock operation goroutine t is at can be done now
CanStep(t) ==
    /\ InCall(t)
    /\ CASE NextOp(t) = "Lock" /\ ~calls[t].waiting ->
               ~locks[NextMutex(t)].w /\ ~locks[NextMutex(t)].ww
          [] NextOp(t) = "Lock" /\ calls[t].waiting -> locks[NextMutex(t)].r = 0
          [] NextOp(t) = "RLock" -> ~locks[NextMutex(t)].w /\ ~locks[NextMutex(t)].ww
          [] OTHER -> TRUE

\* a mutex is asked for with nothing held, or a match's mutex with a store shard's held
LockOrder ==
    \A t \in Callers :
        InCall(t) /\ NextOp(t) \in {"Lock", "RLock"} /\ calls[t].held # <<>> =>
            calls[t].held = <<"shard.mu">> /\ NextMutex(t) = "g.mu"

\* while any call is running, some goroutine inside a call can take its next step
NoneStuck == (\E t \in Callers : InCall(t)) => \E t \in Callers : CanStep(t)

(* C35: for every interleaving of the calls of the core, no state is reached
   in which the running calls all wait for a lock; a lock is asked for while
   another is held only by ListPending, a match's lock under a shard's read
   lock; and every call that has started returns. *)
C35_EveryCallReturns ==
    /\ []LockOrder
    /\ []NoneStuck
    /\ \A t \in Callers : InCall(t) ~> ~InCall(t)

\* ListPending holds the shard's read lock and waits for the match, which Join holds,
\* while a Create waits for the shard
C35_Witness ==
    /\ \E t \in Callers : calls[t].held = <<"shard.mu">> /\ NextMutex(t) = "g.mu"
    /\ locks["g.mu"].w
    /\ locks["shard.mu"].ww

====
